---- MODULE Spec2Model ----
(***************************************************************************)
(* Model of the muse-ai page agent core:                                   *)
(*   - the text chunker and the per-tab snapshot store (src/src/chunker.ts)*)
(*   - the streaming inference client (gemini.ts, executeRequest)          *)
(*   - the agentic loop of the background worker (background.ts)           *)
(* Strings of the program are sequences of one-character strings.          *)
(* An optional value (T | null) is a sequence of length 0 or 1.            *)
(***************************************************************************)
EXTENDS Integers, Sequences, FiniteSets, TLC

VARIABLES
  tabs,       \* SnapshotStoreImpl.tabs: in-memory cache, tab id -> optional TabEntry
  storage,    \* chrome.storage.local restricted to the snapshot_<tabId> keys
  now,        \* Date.now()
  ticks,      \* number of clock advances so far (bounds the run)
  ops,        \* per async call of the store: position and locals; the fields rver,
              \* torn and prior are history: the install count push read, whether
              \* another push installed since, the cached latest at installation
  started,    \* number of store operations started so far (bounds the run)
  ret,        \* the value the most recently completed store operation returned
  wver,       \* history: per tab, number of entries installed by push so far
  \* executeRequest (one call of the inference client)
  cpc,        \* position: "idle", "fetch", "text", "sleep", "done"
  endpoints,  \* providerConfig.endpoints, as the number of endpoints in order
  claudeThinking, \* isClaudeThinkingModel(modelId)
  endpoint,   \* index of the endpoint of the for loop, 1-based
  attempt,    \* attempt of the while loop
  status,     \* response.status of the response being handled (0: none)
  responseOk, \* response && response.ok
  lastError,  \* lastError, optional
  signal,     \* signal.aborted
  requests,   \* history: the fetch calls made, in order, with their outcome
  slept,      \* history: the setTimeout waits started, in ms, in order
  result,     \* what executeRequest returned, optional
  \* the chat handler of one port (one chat turn)
  hpc,        \* position: "idle", "loop_top", "request", "body", "tools",
              \* "tool_wait", "ended"
  agentMode,  \* "ask" | "edit"
  activeTabId,\* optional tab id
  tools,      \* the tool names declared to the model on the last stream call
  round,      \* the for loop counter
  modelParts, \* modelParts of the current round
  heldUsage,  \* optional
  heldFinishReason, \* optional
  calls,      \* functionCallsToExecute
  functionResponses,
  aborted,    \* controller.signal.aborted
  streamAborted,
  convLen,    \* conversation: number of turns before those in convNew
  convNew,    \* conversation: the turns appended by the latest round
  posted,     \* history: port.postMessage calls since the current round began
  clientCalls,\* history: number of streamGeminiChat calls of the turn
  pageWrites, \* history: writeEditorContent calls of the current round
  emitted,    \* history: the parts the provider sent in the current round
  reads,      \* number of body reads of the current round that returned data
  raised,     \* history: per executed tool call of the round, whether it threw
  abortedAt,  \* history: where the abort signal tripped ("none" if it did not)
  ending,    \* history: how the turn ended
  \* one call of splitIntoChunks
  splitPc,     \* position: "idle", "call", "loop", "done"
  splitInput,  \* the argument text, optional (null and undefined are absent)
  splitSize,   \* the argument chunkSize
  splitOverlap,\* the argument overlap
  splitStart,  \* start
  splitChunks, \* chunks, and after the return the returned array
  splitWindows,\* history: <<start, end>> of each chunk pushed, in order
  \* one call of parseStream (the decoder of the response body)
  parsePc,     \* position: "idle", "read", "done"
  streamReads, \* the values reader.read() returns before done, in order
  readCount,   \* number of reads that returned a value so far
  buffer,      \* buffer
  yielded,     \* history: the chunks yielded so far, in order
  \* one call of messagesToApiHistory
  histPc,      \* position: "idle", "call", "done"
  histInput,   \* the argument messages
  histResult,  \* the returned array
  \* one AsyncMutex and the runExclusive calls on it
  mpc,         \* per caller: "idle", "await_lock", "in_callback"
  unlockFn,    \* per caller: the function lock() resolved with
  chain,       \* this.mutex: per lock() call in order, the link .then() added
  \* one chat connection (port) of the background worker
  lastSeenTabId, \* lastSeenTabId, optional
  lastSeenUrl, \* lastSeenUrl, optional
  activeTab,   \* browser: the active tab of the current window
  tabUrl,      \* browser: tab id -> url of the page shown
  seen,        \* snapshot store as the port's turns find it: tab id -> optional TabEntry
  turns        \* the chat messages received so far, one handler invocation each

storeVars == <<tabs, storage, now, ticks, ops, started, ret, wver>>

clientVars == <<cpc, endpoints, claudeThinking, endpoint, attempt, status, responseOk,
                lastError, signal, requests, slept, result>>

chatVars == <<hpc, agentMode, activeTabId, tools, round, modelParts, heldUsage,
              heldFinishReason, calls, functionResponses, aborted, streamAborted,
              convLen, convNew, posted, clientCalls, pageWrites, emitted, reads,
              raised, abortedAt, ending>>

splitVars == <<splitPc, splitInput, splitSize, splitOverlap, splitStart, splitChunks,
               splitWindows>>

parseVars == <<parsePc, streamReads, readCount, buffer, yielded>>

histVars == <<histPc, histInput, histResult>>

mutexVars == <<mpc, unlockFn, chain>>

portVars == <<lastSeenTabId, lastSeenUrl, activeTab, tabUrl, seen, turns>>

auxVars == <<histVars, mutexVars, portVars>>

vars == <<tabs, storage, now, ticks, ops, started, ret, wver,
          cpc, endpoints, claudeThinking, endpoint, attempt, status, responseOk,
          lastError, signal, requests, slept, result,
          hpc, agentMode, activeTabId, tools, round, modelParts, heldUsage,
          heldFinishReason, calls, functionResponses, aborted, streamAborted,
          convLen, convNew, posted, clientCalls, pageWrites, emitted, reads,
          raised, abortedAt, ending,
          splitPc, splitInput, splitSize, splitOverlap, splitStart, splitChunks,
          splitWindows, parsePc, streamReads, readCount, buffer, yielded,
          histPc, histInput, histResult, mpc, unlockFn, chain,
          lastSeenTabId, lastSeenUrl, activeTab, tabUrl, seen, turns>>

----------------------------------------------------------------------------
(* Bounds of the model *)

MaxTicks == 2
MaxOps == 3
MaxReads == 2
NumProcs == 2
NumTabs == 1
MaxTextLen == 4
MaxChunkSize == 3
MaxOverlap == 4
NewlineTextLen == 12
MaxNewlines == 3
MaxLines == 2
MaxCuts == 2
MaxShort == 3
MaxExtra == 6
NumCallers == 4
MaxLocks == 5
NumPortTabs == 2
MaxTurns == 2

Procs == 1..NumProcs
Tabs == 1..NumTabs

----------------------------------------------------------------------------
(* Generic helpers *)

None == <<>>
Some(x) == <<x>>
IsSome(o) == Len(o) = 1
Val(o) == o[1]

Min(a, b) == IF a < b THEN a ELSE b
Max(a, b) == IF a > b THEN a ELSE b

\* String.prototype.slice(a, b) with 0 <= a, 0-based, end exclusive
Slice(s, a, b) == SubSeq(s, a + 1, Min(b, Len(s)))

NL == "\n"
CR == "\r"
IsSpace(c) == c \in {" ", NL, CR}

RECURSIVE TrimStart(_)
TrimStart(s) == IF s # <<>> /\ IsSpace(Head(s)) THEN TrimStart(Tail(s)) ELSE s

RECURSIVE TrimEnd(_)
TrimEnd(s) ==
  IF s # <<>> /\ IsSpace(s[Len(s)]) THEN TrimEnd(SubSeq(s, 1, Len(s) - 1)) ELSE s

\* String.prototype.trim
Trim(s) == TrimEnd(TrimStart(s))

\* String.prototype.lastIndexOf for the patterns "\n" and "\n\n"; -1 when absent
LastIndexOf(s, pat) ==
  LET hits == { i \in 0..(Len(s) - Len(pat)) :
                  \A k \in 1..Len(pat) : s[i + k] = pat[k] }
  IN IF hits = {} THEN -1 ELSE CHOOSE i \in hits : \A j \in hits : j <= i

----------------------------------------------------------------------------
(* Text splitter *)

DEFAULT_CHUNK_SIZE == 2000
DEFAULT_OVERLAP == 200
MAX_CHUNKS == 100
TTL_MS == 30 * 60 * 1000

\* findSplitIndex looking for a line break before a paragraph break
findSplitIndexNewlineFirst(text, start, end, minChunkSize2) ==
  IF end >= Len(text) THEN end
  ELSE LET slice == Slice(text, start, end)
           lastParagraph == LastIndexOf(slice, <<NL, NL>>)
           lastNewline == LastIndexOf(slice, <<NL>>)
       IN IF 2 * lastNewline > minChunkSize2 THEN start + lastNewline + 1
          ELSE IF 2 * lastParagraph > minChunkSize2 THEN start + lastParagraph + 2
          ELSE end

\* minChunkSize is chunkSize * 0.5; it is passed doubled (minChunkSize2) so that
\* the comparison index > minChunkSize stays in the integers.
findSplitIndex(text, start, end, minChunkSize2) ==
  IF end >= Len(text) THEN end
  ELSE LET slice == Slice(text, start, end)
           lastParagraph == LastIndexOf(slice, <<NL, NL>>)
           lastNewline == LastIndexOf(slice, <<NL>>)
       IN IF 2 * lastParagraph > minChunkSize2 THEN start + lastParagraph + 2
          ELSE IF 2 * lastNewline > minChunkSize2 THEN start + lastNewline + 1
          ELSE end

RECURSIVE SplitLoop(_, _, _, _, _)
SplitLoop(text, chunkSize, overlap, start, chunks) ==
  IF start < Len(text) /\ Len(chunks) < MAX_CHUNKS
  THEN LET maxEnd == Min(start + chunkSize, Len(text))
           end == findSplitIndex(text, start, maxEnd, chunkSize)
           step == Max(end - start - overlap, 1)
       IN SplitLoop(text, chunkSize, overlap, start + step,
                    Append(chunks, Trim(Slice(text, start, end))))
  ELSE chunks

splitIntoChunks(text, chunkSize, overlap) ==
  IF Len(text) = 0 THEN <<>>
  ELSE IF Len(text) <= chunkSize THEN <<text>>
  ELSE SplitLoop(text, chunkSize, overlap, 0, <<>>)

----------------------------------------------------------------------------
(* One call of splitIntoChunks, iteration by iteration *)

IdleSplit ==
  /\ splitPc = "idle"
  /\ splitInput = None
  /\ splitSize = 0
  /\ splitOverlap = 0
  /\ splitStart = 0
  /\ splitChunks = <<>>
  /\ splitWindows = <<>>

\* the text of the call; the empty string stands in where the argument is absent
SplitText == IF IsSome(splitInput) THEN Val(splitInput) ELSE <<>>

\* line 64 returning the text trimmed
ShortResultTrimmed(text) == <<Trim(text)>>

\* line 64: a text that fits one chunk is returned as it is
ShortResult(text) == <<text>>

\* the step without the floor of one
StepUnfloored(start, end, overlap) == end - start - overlap

\* the step that forgets the overlap
StepIgnoringOverlap(start, end, overlap) == Max(end - start, 1)

\* the step that skips the character after the window
StepSkipping(start, end, overlap) == end - start + 1

\* line 80: the step from one window to the next
Step(start, end, overlap) == Max(end - start - overlap, 1)

\* lines 72-73: the end of the window that begins at start
WindowEnd(text, start, chunkSize) ==
  findSplitIndex(text, start, Min(start + chunkSize, Len(text)), chunkSize)

\* lines 63-69: the early returns, or entry into the loop
SplitCall ==
  /\ splitPc = "call"
  /\ IF ~IsSome(splitInput) \/ Len(SplitText) = 0
     THEN /\ splitPc' = "done"
          /\ splitChunks' = <<>>
          /\ splitWindows' = <<>>
     ELSE IF Len(SplitText) <= splitSize
     THEN /\ splitPc' = "done"
          /\ splitChunks' = ShortResult(SplitText)
          /\ splitWindows' = << <<0, Len(SplitText)>> >>
     ELSE /\ splitPc' = "loop"
          /\ splitChunks' = <<>>
          /\ splitWindows' = <<>>
  /\ splitStart' = 0
  /\ UNCHANGED <<splitInput, splitSize, splitOverlap>>
  /\ UNCHANGED <<storeVars, clientVars, chatVars, parseVars, auxVars>>

\* lines 71-82: one iteration of the while loop
SplitIterate ==
  /\ splitPc = "loop"
  /\ splitStart < Len(SplitText) /\ Len(splitChunks) < MAX_CHUNKS
  /\ LET end == WindowEnd(SplitText, splitStart, splitSize)
     IN /\ splitChunks' = Append(splitChunks, Trim(Slice(SplitText, splitStart, end)))
        /\ splitWindows' = Append(splitWindows, <<splitStart, end>>)
        /\ splitStart' = splitStart + Step(splitStart, end, splitOverlap)
  /\ UNCHANGED <<splitPc, splitInput, splitSize, splitOverlap>>
  /\ UNCHANGED <<storeVars, clientVars, chatVars, parseVars, auxVars>>

\* lines 71 and 84: the loop condition fails and chunks is returned
SplitReturn ==
  /\ splitPc = "loop"
  /\ ~(splitStart < Len(SplitText) /\ Len(splitChunks) < MAX_CHUNKS)
  /\ splitPc' = "done"
  /\ UNCHANGED <<splitInput, splitSize, splitOverlap, splitStart, splitChunks,
                 splitWindows>>
  /\ UNCHANGED <<storeVars, clientVars, chatVars, parseVars, auxVars>>

SplitNext == SplitCall \/ SplitIterate \/ SplitReturn

\* the texts of the calls: every text up to MaxTextLen over letters, blanks and
\* line breaks; texts of NewlineTextLen letters with up to MaxNewlines line breaks
\* put anywhere; the texts of the repository's tests; a text of more windows than
\* the cap allows
SmallTexts == UNION { [1..n -> {"a", " ", NL}] : n \in 0..MaxTextLen }
NewlineTexts ==
  { [i \in 1..NewlineTextLen |-> IF i \in at THEN NL ELSE "a"] :
      at \in { x \in SUBSET (1..NewlineTextLen) : Cardinality(x) <= MaxNewlines } }
Repeat(c, n) == [i \in 1..n |-> c]
Digits(from, n) ==
  [i \in 1..n |-> <<"0", "1", "2", "3", "4", "5", "6", "7", "8", "9">>[((from + i - 1) % 10) + 1]]
SplitInput(text, chunkSize, overlap) ==
  [text |-> text, chunkSize |-> chunkSize, overlap |-> overlap]
TestInputs ==
  { SplitInput(None, DEFAULT_CHUNK_SIZE, DEFAULT_OVERLAP),
    SplitInput(Some(<<>>), DEFAULT_CHUNK_SIZE, DEFAULT_OVERLAP),
    SplitInput(Some(Digits(1, 10)), 5, 0),
    SplitInput(Some(Digits(1, 10)), 6, 2),
    SplitInput(Some(Repeat("a", 100)), 1, 0),
    SplitInput(Some(Digits(0, 13) \o <<NL, NL>> \o Digits(4, 17)), 20, 0),
    SplitInput(Some(Digits(0, 13) \o <<NL>> \o Digits(4, 17)), 20, 0),
    SplitInput(Some(Digits(0, 26)), 10, 0) }
SplitInputs ==
  TestInputs
  \cup { SplitInput(Some(Repeat("a", MAX_CHUNKS + 1)), 1, 0) }
  \cup { SplitInput(Some(t), c, o) :
           t \in SmallTexts, c \in 1..MaxChunkSize, o \in 0..MaxOverlap }
  \cup { SplitInput(Some(t), c, o) :
           t \in NewlineTexts, c \in {9, 10}, o \in {0, 2} }

----------------------------------------------------------------------------
(* Content hash: djb2 over 32 bits, printed in base 36.                    *)
(* The 32-bit value is kept as two 16-bit halves <<hi, lo>>.               *)

CharCode(c) ==
  CASE c = NL -> 10
    [] c = " " -> 32
    [] c = "a" -> 97
    [] c = "b" -> 98
    [] c = "c" -> 99
    [] OTHER -> 63

\* ((hash << 5) + hash + code) >>> 0
Djb2Step(h, code) ==
  LET lo == 33 * h[2] + code
      hi == 33 * h[1] + (lo \div 65536)
  IN <<hi % 65536, lo % 65536>>

\* the loop over the character codes, run over the first half and then the second
RECURSIVE Djb2(_, _)
Djb2(h, text) ==
  IF text = <<>> THEN h
  ELSE IF Len(text) = 1 THEN Djb2Step(h, text[1])
  ELSE LET half == Len(text) \div 2
           first == Djb2(h, SubSeq(text, 1, half))
       IN \* (the test holds of every hash value; it fixes the order of evaluation)
          IF first[1] >= 0 THEN Djb2(first, SubSeq(text, half + 1, Len(text))) ELSE first

\* Number.prototype.toString(36): most significant digit first, "0" for zero
RECURSIVE ToBase36(_)
ToBase36(h) ==
  LET qhi == h[1] \div 36
      mid == (h[1] % 36) * 65536 + h[2]
      q == <<qhi, mid \div 36>>
      d == mid % 36
  IN IF q = <<0, 0>> THEN <<d>> ELSE Append(ToBase36(q), d)

\* 5381 = 0 * 65536 + 5381
hashContent(text) ==
  ToBase36(Djb2(<<0, 5381>>, [i \in 1..Len(text) |-> CharCode(text[i])]))

----------------------------------------------------------------------------
(* Line diff (the diff package): diffLines and createTwoFilesPatch.        *)
(* A line token keeps its trailing newline; the edit script is minimal.    *)

RECURSIVE LineTokens(_, _)
LineTokens(text, cur) ==
  IF text = <<>> THEN (IF cur = <<>> THEN <<>> ELSE <<cur>>)
  ELSE IF Head(text) = NL THEN <<Append(cur, NL)>> \o LineTokens(Tail(text), <<>>)
  ELSE LineTokens(Tail(text), Append(cur, Head(text)))

RECURSIVE LcsLen(_, _)
LcsLen(a, b) ==
  IF a = <<>> \/ b = <<>> THEN 0
  ELSE IF Head(a) = Head(b) THEN 1 + LcsLen(Tail(a), Tail(b))
  ELSE Max(LcsLen(Tail(a), b), LcsLen(a, Tail(b)))

\* the change objects of diffLines, one per line: [added, removed, value]
RECURSIVE diffLines(_, _)
diffLines(a, b) ==
  IF a = <<>> THEN [i \in 1..Len(b) |-> [added |-> TRUE, removed |-> FALSE, value |-> b[i]]]
  ELSE IF b = <<>> THEN [i \in 1..Len(a) |-> [added |-> FALSE, removed |-> TRUE, value |-> a[i]]]
  ELSE IF Head(a) = Head(b)
    THEN <<[added |-> FALSE, removed |-> FALSE, value |-> Head(a)]>> \o diffLines(Tail(a), Tail(b))
  ELSE IF LcsLen(Tail(a), b) >= LcsLen(a, Tail(b))
    THEN <<[added |-> FALSE, removed |-> TRUE, value |-> Head(a)]>> \o diffLines(Tail(a), b)
  ELSE <<[added |-> TRUE, removed |-> FALSE, value |-> Head(b)]>> \o diffLines(a, Tail(b))

\* the unified patch: the two file header lines, then one line per changed line
createTwoFilesPatch(oldText, newText) ==
  LET changes == diffLines(LineTokens(oldText, <<>>), LineTokens(newText, <<>>))
      body == SelectSeq(changes, LAMBDA c : c.added \/ c.removed)
  IN <<<<"---", <<"previous">>>>, <<"+++", <<"current">>>>>> \o
     [i \in 1..Len(body) |-> <<IF body[i].added THEN "+" ELSE "-", body[i].value>>]

----------------------------------------------------------------------------
(* Snapshot store: values *)

\* Snapshot (chunker.ts 104-112)
Snapshot(content, at) ==
  [url |-> content.url, title |-> content.title, markdown |-> content.markdown,
   chunks |-> splitIntoChunks(content.markdown, DEFAULT_CHUNK_SIZE, DEFAULT_OVERLAP),
   hash |-> hashContent(content.markdown), updatedAt |-> at,
   editorContents |-> content.editorContents]

TabEntry(latest, previous) == [latest |-> latest, previous |-> previous]

\* DiffResult, all variants in one record shape; unused fields are empty
DiffResult(type, patch, changedLines, totalLines, changedChunks, oldUrl, newUrl) ==
  [type |-> type, patch |-> patch, changedLines |-> changedLines,
   totalLines |-> totalLines, changedChunks |-> changedChunks,
   oldUrl |-> oldUrl, newUrl |-> newUrl]

DiffOf(type) == DiffResult(type, <<>>, 0, 0, <<>>, "", "")

\* the indices i < max(len) with oldChunks[i] !== newChunks[i], ascending
RECURSIVE ChangedFrom(_, _, _)
ChangedFrom(i, oldChunks, newChunks) ==
  IF i >= Max(Len(oldChunks), Len(newChunks)) THEN <<>>
  ELSE LET differ == \/ i + 1 > Len(oldChunks)
                     \/ i + 1 > Len(newChunks)
                     \/ oldChunks[i + 1] # newChunks[i + 1]
       IN (IF differ THEN <<i>> ELSE <<>>) \o ChangedFrom(i + 1, oldChunks, newChunks)

\* computeDiff with the threshold itself counted as too much
computeDiffStrict(oldText, newText, oldChunks, newChunks) ==
  LET changes == diffLines(LineTokens(oldText, <<>>), LineTokens(newText, <<>>))
      changedLines == Len(SelectSeq(changes, LAMBDA c : c.added \/ c.removed))
      totalLines == Len(changes)
      changedChunks == ChangedFrom(0, oldChunks, newChunks)
  IN IF totalLines = 0 THEN DiffOf("unchanged")
     ELSE IF changedLines * 10 >= 3 * totalLines
       THEN DiffResult("large_diff", <<>>, changedLines, totalLines, changedChunks, "", "")
     ELSE DiffResult("small_diff", createTwoFilesPatch(oldText, newText),
                     changedLines, totalLines, changedChunks, "", "")

\* DIFF_THRESHOLD_RATIO = 0.3 as the fraction 3/10
DIFF_THRESHOLD_NUM == 3
DIFF_THRESHOLD_DEN == 10

computeDiff(oldText, newText, oldChunks, newChunks) ==
  LET changes == diffLines(LineTokens(oldText, <<>>), LineTokens(newText, <<>>))
      changedLines == Len(SelectSeq(changes, LAMBDA c : c.added \/ c.removed))
      totalLines == Len(changes)
      changedChunks == ChangedFrom(0, oldChunks, newChunks)
  IN IF totalLines = 0 THEN DiffOf("unchanged")
     ELSE IF changedLines * DIFF_THRESHOLD_DEN > DIFF_THRESHOLD_NUM * totalLines
       THEN DiffResult("large_diff", <<>>, changedLines, totalLines, changedChunks, "", "")
     ELSE DiffResult("small_diff", createTwoFilesPatch(oldText, newText),
                     changedLines, totalLines, changedChunks, "", "")

\* push without the TTL check
PushEntryNoTtl(existing, newSnapshot, at) ==
  IF ~IsSome(existing) THEN TabEntry(newSnapshot, None)
  ELSE TabEntry(newSnapshot, Some(Val(existing).latest))

\* push, lines 193-211: the entry installed for a new snapshot given what loadTab returned
PushEntry(existing, newSnapshot, at) ==
  IF ~IsSome(existing) THEN TabEntry(newSnapshot, None)
  ELSE IF at - Val(existing).latest.updatedAt > TTL_MS THEN TabEntry(newSnapshot, None)
  ELSE TabEntry(newSnapshot, Some(Val(existing).latest))

\* push testing the hash before the url
PushDiffHashFirst(existing, newSnapshot, at) ==
  IF ~IsSome(existing) THEN DiffOf("no_previous")
  ELSE LET oldLatest == Val(existing).latest IN
    IF at - oldLatest.updatedAt > TTL_MS THEN DiffOf("no_previous")
    ELSE IF oldLatest.hash = newSnapshot.hash THEN DiffOf("unchanged")
    ELSE IF oldLatest.url # newSnapshot.url
      THEN DiffResult("url_changed", <<>>, 0, 0, <<>>, oldLatest.url, newSnapshot.url)
    ELSE computeDiff(oldLatest.markdown, newSnapshot.markdown,
                     oldLatest.chunks, newSnapshot.chunks)

\* push without the hash gate
PushDiffNoHashGate(existing, newSnapshot, at) ==
  IF ~IsSome(existing) THEN DiffOf("no_previous")
  ELSE LET oldLatest == Val(existing).latest IN
    IF at - oldLatest.updatedAt > TTL_MS THEN DiffOf("no_previous")
    ELSE IF oldLatest.url # newSnapshot.url
      THEN DiffResult("url_changed", <<>>, 0, 0, <<>>, oldLatest.url, newSnapshot.url)
    ELSE computeDiff(oldLatest.markdown, newSnapshot.markdown,
                     oldLatest.chunks, newSnapshot.chunks)

\* push, lines 193-230: the diff returned
PushDiff(existing, newSnapshot, at) ==
  IF ~IsSome(existing) THEN DiffOf("no_previous")
  ELSE LET oldLatest == Val(existing).latest IN
    IF at - oldLatest.updatedAt > TTL_MS THEN DiffOf("no_previous")
    ELSE IF oldLatest.url # newSnapshot.url
      THEN DiffResult("url_changed", <<>>, 0, 0, <<>>, oldLatest.url, newSnapshot.url)
    ELSE IF oldLatest.hash = newSnapshot.hash THEN DiffOf("unchanged")
    ELSE computeDiff(oldLatest.markdown, newSnapshot.markdown,
                     oldLatest.chunks, newSnapshot.chunks)

----------------------------------------------------------------------------
(* Snapshot store: state and operations *)

\* what callers push: page reads of two urls, one of them an empty read
NoEditors == <<>>
PushContents ==
  { [url |-> "u1", title |-> "t1", markdown |-> <<"a", NL, "b">>, editorContents |-> NoEditors],
    [url |-> "u1", title |-> "t1", markdown |-> <<"a", NL, "c">>,
     editorContents |-> <<[key |-> "monaco_1", label |-> "l", code |-> <<"c">>]>>],
    [url |-> "u2", title |-> "t2", markdown |-> <<>>, editorContents |-> NoEditors] }

ClockSteps == {1, TTL_MS}

IdleOp ==
  [pc |-> "idle", kind |-> "none", tab |-> 0, snap |-> None, existing |-> None,
   got |-> None, entry |-> None, now0 |-> 0,
   rver |-> 0, torn |-> FALSE, prior |-> None,
   allData |-> [t \in Tabs |-> None], keys |-> {},
   source |-> "", indices |-> <<>>]

AllIdle == \A p \in Procs : ops[p].pc = "idle"

\* a returned value: the operation, the call, its diff (push), whether it rejected
Return(kind, diff, threw) ==
  [kind |-> kind, diff |-> diff, threw |-> threw, items |-> <<>>]
NoReturn == Return("none", DiffOf("none"), FALSE)

InitStore ==
  /\ tabs = [t \in Tabs |-> None]
  /\ storage = [t \in Tabs |-> None]
  /\ now = 1
  /\ ticks = 0
  /\ ops = [p \in Procs |-> IdleOp]
  /\ started = 0
  /\ ret = NoReturn
  /\ wver = [t \in Tabs |-> 0]

\* time passes
Tick(d) ==
  /\ ticks < MaxTicks
  /\ now' = now + d
  /\ ticks' = ticks + 1
  /\ UNCHANGED <<tabs, storage, ops, started, ret, wver>>
  /\ UNCHANGED <<clientVars, chatVars, splitVars, parseVars, auxVars>>

\* the service worker is stopped and started again: the cache is lost
Restart ==
  /\ AllIdle
  /\ \E t \in Tabs : IsSome(tabs[t])
  /\ tabs' = [t \in Tabs |-> None]
  /\ UNCHANGED <<storage, now, ticks, ops, started, ret, wver>>
  /\ UNCHANGED <<clientVars, chatVars, splitVars, parseVars, auxVars>>

\* push up to the first await: build the snapshot, enter loadTab
PushStart(p, t, content) ==
  /\ ops[p].pc = "idle"
  /\ started < MaxOps
  /\ started' = started + 1
  /\ ops' = [ops EXCEPT ![p] =
       [IdleOp EXCEPT !.kind = "push", !.tab = t, !.snap = Some(Snapshot(content, now)),
                      !.pc = IF IsSome(tabs[t]) THEN "push_loaded" ELSE "load_get",
                      !.existing = tabs[t], !.rver = wver[t]]]
  /\ UNCHANGED <<tabs, storage, now, ticks, ret, wver>>
  /\ UNCHANGED <<clientVars, chatVars, splitVars, parseVars, auxVars>>

\* loadTab: chrome.storage.local.get answers (or fails)
LoadGet(p, ok) ==
  /\ ops[p].pc = "load_get"
  /\ ops' = [ops EXCEPT ![p].pc = "load_got",
                        ![p].got = IF ok THEN storage[ops[p].tab] ELSE None,
                        ![p].rver = wver[ops[p].tab]]
  /\ UNCHANGED <<tabs, storage, now, ticks, started, ret, wver>>
  /\ UNCHANGED <<clientVars, chatVars, splitVars, parseVars, auxVars>>

\* loadTab after the await: populate the cache on a hit, return the entry or null
LoadResume(p) ==
  /\ ops[p].pc = "load_got"
  /\ tabs' = IF IsSome(ops[p].got) THEN [tabs EXCEPT ![ops[p].tab] = ops[p].got] ELSE tabs
  /\ ops' = [ops EXCEPT ![p].pc = IF ops[p].kind = "push" THEN "push_loaded"
                                  ELSE "get_loaded",
                        ![p].existing = ops[p].got]
  /\ UNCHANGED <<storage, now, ticks, started, ret, wver>>
  /\ UNCHANGED <<clientVars, chatVars, splitVars, parseVars, auxVars>>

\* push after loadTab: decide the entry, saveTab up to its await
PushDecide(p) ==
  /\ ops[p].pc = "push_loaded"
  /\ LET t == ops[p].tab
         entry == PushEntry(ops[p].existing, Val(ops[p].snap), now)
     IN /\ tabs' = [tabs EXCEPT ![t] = Some(entry)]
        /\ wver' = [wver EXCEPT ![t] = @ + 1]
        /\ ops' = [ops EXCEPT ![p].pc = "save_set", ![p].now0 = now,
                              ![p].entry = Some(entry),
                              ![p].torn = (wver[t] # ops[p].rver),
                              ![p].prior = IF IsSome(tabs[t])
                                           THEN Some(Val(tabs[t]).latest) ELSE None]
  /\ UNCHANGED <<storage, now, ticks, started, ret>>
  /\ UNCHANGED <<clientVars, chatVars, splitVars, parseVars, auxVars>>

\* saveTab: chrome.storage.local.set answers (or fails, which is logged); push returns
PushSaved(p, ok) ==
  /\ ops[p].pc = "save_set"
  /\ LET t == ops[p].tab
     IN /\ storage' = IF ok THEN [storage EXCEPT ![t] = ops[p].entry] ELSE storage
        /\ ret' = Return("push",
                         PushDiff(ops[p].existing, Val(ops[p].snap), ops[p].now0), FALSE)
  /\ ops' = [ops EXCEPT ![p] = IdleOp]
  /\ UNCHANGED <<tabs, now, ticks, started, wver>>
  /\ UNCHANGED <<clientVars, chatVars, splitVars, parseVars, auxVars>>

\* clearTab up to its await: drop the cache entry
ClearStart(p, t) ==
  /\ ops[p].pc = "idle"
  /\ started < MaxOps
  /\ started' = started + 1
  /\ tabs' = [tabs EXCEPT ![t] = None]
  /\ ops' = [ops EXCEPT ![p] = [IdleOp EXCEPT !.kind = "clearTab", !.tab = t,
                                              !.pc = "clear_remove"]]
  /\ UNCHANGED <<storage, now, ticks, ret, wver>>
  /\ UNCHANGED <<clientVars, chatVars, splitVars, parseVars, auxVars>>

\* clearTab: chrome.storage.local.remove answers, or fails and clearTab rejects
ClearRemoved(p, ok) ==
  /\ ops[p].pc = "clear_remove"
  /\ storage' = IF ok THEN [storage EXCEPT ![ops[p].tab] = None] ELSE storage
  /\ ret' = Return("clearTab", DiffOf("none"), ~ok)
  /\ ops' = [ops EXCEPT ![p] = IdleOp]
  /\ UNCHANGED <<tabs, now, ticks, started, wver>>
  /\ UNCHANGED <<clientVars, chatVars, splitVars, parseVars, auxVars>>

\* pruneStale up to its await: read the clock, ask for all stored data
PruneStart(p) ==
  /\ ops[p].pc = "idle"
  /\ started < MaxOps
  /\ started' = started + 1
  /\ ops' = [ops EXCEPT ![p] = [IdleOp EXCEPT !.kind = "pruneStale", !.now0 = now,
                                              !.pc = "prune_get"]]
  /\ UNCHANGED <<tabs, storage, now, ticks, ret, wver>>
  /\ UNCHANGED <<clientVars, chatVars, splitVars, parseVars, auxVars>>

\* pruneStale: chrome.storage.local.get(null) answers, or fails (caught and logged)
PruneGet(p, ok) ==
  /\ ops[p].pc = "prune_get"
  /\ IF ok
     THEN /\ ops' = [ops EXCEPT ![p].pc = "prune_got", ![p].allData = storage]
          /\ UNCHANGED ret
     ELSE /\ ops' = [ops EXCEPT ![p] = IdleOp]
          /\ ret' = Return("pruneStale", DiffOf("none"), FALSE)
  /\ UNCHANGED <<tabs, storage, now, ticks, started, wver>>
  /\ UNCHANGED <<clientVars, chatVars, splitVars, parseVars, auxVars>>

\* the keys pruneStale collects: latest.updatedAt truthy and older than the TTL
StaleKeys(allData, at) ==
  { t \in Tabs : /\ IsSome(allData[t])
                 /\ Val(allData[t]).latest.updatedAt # 0
                 /\ at - Val(allData[t]).latest.updatedAt > TTL_MS }

\* pruneStale after the get: scan, evict from the cache, ask for the removal
PruneScan(p) ==
  /\ ops[p].pc = "prune_got"
  /\ LET keysToRemove == StaleKeys(ops[p].allData, ops[p].now0)
     IN /\ tabs' = [t \in Tabs |-> IF t \in keysToRemove THEN None ELSE tabs[t]]
        /\ IF keysToRemove # {}
           THEN /\ ops' = [ops EXCEPT ![p].pc = "prune_remove", ![p].keys = keysToRemove]
                /\ UNCHANGED ret
           ELSE /\ ops' = [ops EXCEPT ![p] = IdleOp]
                /\ ret' = Return("pruneStale", DiffOf("none"), FALSE)
  /\ UNCHANGED <<storage, now, ticks, started, wver>>
  /\ UNCHANGED <<clientVars, chatVars, splitVars, parseVars, auxVars>>

\* pruneStale: chrome.storage.local.remove(keys) answers, or fails (caught and logged)
PruneRemoved(p, ok) ==
  /\ ops[p].pc = "prune_remove"
  /\ storage' = IF ok THEN [t \in Tabs |-> IF t \in ops[p].keys THEN None ELSE storage[t]]
                ELSE storage
  /\ ret' = Return("pruneStale", DiffOf("none"), FALSE)
  /\ ops' = [ops EXCEPT ![p] = IdleOp]
  /\ UNCHANGED <<tabs, now, ticks, started, wver>>
  /\ UNCHANGED <<clientVars, chatVars, splitVars, parseVars, auxVars>>

StoreNext ==
  \/ \E d \in ClockSteps : Tick(d)
  \/ Restart
  \/ \E p \in Procs, t \in Tabs, c \in PushContents : PushStart(p, t, c)
  \/ \E p \in Procs, ok \in BOOLEAN : LoadGet(p, ok)
  \/ \E p \in Procs : LoadResume(p)
  \/ \E p \in Procs : PushDecide(p)
  \/ \E p \in Procs, ok \in BOOLEAN : PushSaved(p, ok)
  \/ \E p \in Procs, t \in Tabs : ClearStart(p, t)
  \/ \E p \in Procs, ok \in BOOLEAN : ClearRemoved(p, ok)
  \/ \E p \in Procs : PruneStart(p)
  \/ \E p \in Procs, ok \in BOOLEAN : PruneGet(p, ok)
  \/ \E p \in Procs : PruneScan(p)
  \/ \E p \in Procs, ok \in BOOLEAN : PruneRemoved(p, ok)

----------------------------------------------------------------------------
(* Inference client: executeRequest *)

MAX_RETRIES == 3
MAX_WAIT_SECONDS == 20
DEFAULT_WAIT_SECONDS == 2

\* providers.ts: gemini-cli has one endpoint, antigravity two
ProviderEndpoints == {1, 2}

\* what a fetch can do while the signal is not aborted: a status, or a network error
FetchOutcomes == {"200", "429", "503", "404", "500", "neterr"}

\* the seconds of "after <n>s" in a 429 body; 0 stands for a body without the hint
WaitHints == {0, 19, 20}

RECURSIVE Pow2(_)
Pow2(n) == IF n = 0 THEN 1 ELSE 2 * Pow2(n - 1)

Error(kind, detail) == [kind |-> kind, detail |-> detail]

IdleClient ==
  /\ cpc = "idle"
  /\ endpoints = 1
  /\ claudeThinking = FALSE
  /\ endpoint = 0
  /\ attempt = 0
  /\ status = 0
  /\ responseOk = FALSE
  /\ lastError = None
  /\ signal = FALSE
  /\ requests = <<>>
  /\ slept = <<>>
  /\ result = None

\* fetch(url, ...) is called: one more request attempt on the current endpoint
\* (hint: the retry hint read from the body of a 429 answer, once it was read)
Request(e, a) == [endpoint |-> e, attempt |-> a, outcome |-> "pending", hint |-> None]

\* the hint of the 429 body of the last request was read
SetHint(log, hint) == [log EXCEPT ![Len(log)].hint = Some(hint)]

\* await new Promise((r) => setTimeout(r, ms)) after the last request
Sleep(log, ms) == [request |-> Len(log), ms |-> ms]

SetOutcome(log, outcome) == [log EXCEPT ![Len(log)].outcome = outcome]

\* the endpoint loop without the exit on a working endpoint
EndpointLoopNeverExits(ok) == FALSE

\* line 291: leave the endpoint loop when a working endpoint was found
EndpointLoopExit(ok) == ok

\* line 294-298: what executeRequest returns
Returned(ok, err) ==
  IF ~ok
  THEN Some([response |-> 0,
             error |-> Some(IF IsSome(err) THEN Val(err) ELSE Error("connect", 0))])
  ELSE Some([response |-> Len(requests), error |-> None])

\* the while loop of one endpoint was left (break, or attempts exhausted) with
\* response/lastError as given: go to the next endpoint or return
LeaveEndpoint(ok, err, log) ==
  IF EndpointLoopExit(ok) \/ endpoint >= endpoints
  THEN /\ cpc' = "done"
       /\ result' = Returned(ok, err)
       /\ lastError' = err
       /\ requests' = log
       /\ UNCHANGED <<endpoint, attempt>>
  ELSE \* next endpoint: lastError = undefined, attempt = 0, then attempt++ and fetch
       /\ cpc' = "fetch"
       /\ endpoint' = endpoint + 1
       /\ attempt' = 1
       /\ lastError' = None
       /\ requests' = Append(log, Request(endpoint + 1, 1))
       /\ result' = None

\* the retry loop giving up after any failed attempt
ContinueGivesUp(err, log) == LeaveEndpoint(responseOk, err, log)

\* the retry loop with one attempt too many
ContinueOnceMore(err, log) ==
  IF attempt <= MAX_RETRIES
  THEN /\ cpc' = "fetch"
       /\ attempt' = attempt + 1
       /\ lastError' = err
       /\ requests' = Append(log, Request(endpoint, attempt + 1))
       /\ UNCHANGED <<endpoint, result>>
  ELSE LeaveEndpoint(responseOk, err, log)

\* `continue`, or the end of the catch block: test the while condition again
Continue(err, log) ==
  IF attempt < MAX_RETRIES
  THEN /\ cpc' = "fetch"
       /\ attempt' = attempt + 1
       /\ lastError' = err
       /\ requests' = Append(log, Request(endpoint, attempt + 1))
       /\ UNCHANGED <<endpoint, result>>
  ELSE LeaveEndpoint(responseOk, err, log)

\* executeRequest is called: first endpoint, first attempt, up to the fetch
ClientStart(n, thinking) ==
  /\ cpc = "idle"
  /\ cpc' = "fetch"
  /\ endpoints' = n
  /\ claudeThinking' = thinking
  /\ endpoint' = 1
  /\ attempt' = 1
  /\ requests' = <<Request(1, 1)>>
  /\ UNCHANGED <<status, responseOk, lastError, signal, slept, result>>
  /\ UNCHANGED <<storeVars, chatVars, splitVars, parseVars, auxVars>>

\* the caller's AbortController fires while the client is suspended
ClientAbort ==
  /\ cpc \in {"fetch", "text", "sleep"}
  /\ ~signal
  /\ signal' = TRUE
  /\ UNCHANGED <<cpc, endpoints, claudeThinking, endpoint, attempt, status, responseOk,
                 lastError, requests, slept, result>>
  /\ UNCHANGED <<storeVars, chatVars, splitVars, parseVars, auxVars>>

\* the catch block (lines 277-288) for an AbortError or another exception
Catch(kind, log) ==
  IF kind = "AbortError"
  THEN /\ LeaveEndpoint(responseOk, Some(Error("AbortError", 0)), log)
       /\ UNCHANGED slept
  ELSE /\ cpc' = "sleep"
       /\ lastError' = Some(Error("network", 0))
       /\ slept' = Append(slept, Sleep(log, 1000 * Pow2(attempt)))
       /\ requests' = log
       /\ UNCHANGED <<endpoint, attempt, result>>

\* the fetch settles: a response (lines 230-233) or an exception
FetchSettles(outcome) ==
  /\ cpc = "fetch"
  /\ IF signal THEN outcome = "AbortError" ELSE outcome \in FetchOutcomes
  /\ IF outcome = "200"
     THEN /\ responseOk' = TRUE
          /\ status' = 200
          /\ LeaveEndpoint(TRUE, lastError, SetOutcome(requests, outcome))
          /\ UNCHANGED slept
     ELSE IF outcome \in {"neterr", "AbortError"}
     THEN /\ Catch(outcome, SetOutcome(requests, outcome))
          /\ UNCHANGED <<status, responseOk>>
     ELSE \* a response that is not ok: await response.text()
          /\ cpc' = "text"
          /\ responseOk' = FALSE
          /\ status' = CASE outcome = "429" -> 429 [] outcome = "503" -> 503
                         [] outcome = "500" -> 500 [] OTHER -> 404
          /\ requests' = SetOutcome(requests, outcome)
          /\ UNCHANGED <<endpoint, attempt, lastError, slept, result>>
  /\ UNCHANGED <<endpoints, claudeThinking, signal>>
  /\ UNCHANGED <<storeVars, chatVars, splitVars, parseVars, auxVars>>

\* the wait without the one-second buffer
WaitSecondsNoBuffer(hint) == IF hint > 0 THEN hint ELSE DEFAULT_WAIT_SECONDS

\* lines 238-245: the wait in seconds for a 429 body with the given hint
WaitSeconds(hint) == IF hint > 0 THEN hint + 1 ELSE DEFAULT_WAIT_SECONDS

\* every error status backs off and retries
AnyStatusBacksOff(st) == TRUE

\* line 260: the status that gets the quick backoff
ServiceUnavailable(st) == st = 503

\* response.text() settles: the error body is handled by status (lines 235-275)
TextSettles(hint) ==
  /\ cpc = "text"
  /\ IF signal
     THEN /\ Catch("AbortError", SetOutcome(requests, "AbortError"))
     ELSE IF status = 429
     THEN IF WaitSeconds(hint) <= MAX_WAIT_SECONDS
          THEN /\ cpc' = "sleep"
               /\ slept' = Append(slept, Sleep(requests, WaitSeconds(hint) * 1000))
               /\ requests' = SetHint(requests, hint)
               /\ UNCHANGED <<endpoint, attempt, lastError, result>>
          ELSE /\ LeaveEndpoint(FALSE, Some(Error("rate_limit", hint)),
                                SetHint(requests, hint))
               /\ UNCHANGED slept
     ELSE IF ServiceUnavailable(status)
     THEN /\ cpc' = "sleep"
          /\ slept' = Append(slept, Sleep(requests, 1000 * Pow2(attempt)))
          /\ UNCHANGED <<endpoint, attempt, lastError, requests, result>>
     ELSE /\ LeaveEndpoint(FALSE,
                           Some(IF status = 404 /\ claudeThinking
                                THEN Error("claude_not_found", 404)
                                ELSE Error("api", status)),
                           requests)
          /\ UNCHANGED slept
  /\ UNCHANGED <<endpoints, claudeThinking, status, responseOk, signal>>
  /\ UNCHANGED <<storeVars, chatVars, splitVars, parseVars, auxVars>>

\* the setTimeout of a backoff fires: `continue` (429, 503) or the end of the catch
SleepEnds ==
  /\ cpc = "sleep"
  /\ Continue(lastError, requests)
  /\ UNCHANGED <<endpoints, claudeThinking, status, responseOk, signal, slept>>
  /\ UNCHANGED <<storeVars, chatVars, splitVars, parseVars, auxVars>>

ClientNext ==
  \/ \E n \in ProviderEndpoints, thinking \in BOOLEAN : ClientStart(n, thinking)
  \/ ClientAbort
  \/ \E outcome \in FetchOutcomes \cup {"AbortError"} : FetchSettles(outcome)
  \/ \E hint \in WaitHints : TextSettles(hint)
  \/ SleepEnds

----------------------------------------------------------------------------
(* Snapshot store reads used by the tools *)

\* getChunks counting the chunks from one
getChunksOneBased(entry, source, indices) ==
  IF ~IsSome(entry) THEN <<>>
  ELSE LET snapshot == IF source = "latest" THEN Some(Val(entry).latest)
                       ELSE Val(entry).previous
       IN IF ~IsSome(snapshot) THEN <<>>
          ELSE LET kept == SelectSeq(indices,
                              LAMBDA i : i >= 1 /\ i <= Len(Val(snapshot).chunks))
               IN [k \in 1..Len(kept) |->
                     [index |-> kept[k], content |-> Val(snapshot).chunks[kept[k]]]]

\* getChunks after loadTab returned entry: the in-range indices, in request order
getChunks(entry, source, indices) ==
  IF ~IsSome(entry) THEN <<>>
  ELSE LET snapshot == IF source = "latest" THEN Some(Val(entry).latest)
                       ELSE Val(entry).previous
       IN IF ~IsSome(snapshot) THEN <<>>
          ELSE LET kept == SelectSeq(indices,
                              LAMBDA i : i >= 0 /\ i < Len(Val(snapshot).chunks))
               IN [k \in 1..Len(kept) |->
                     [index |-> kept[k], content |-> Val(snapshot).chunks[kept[k] + 1]]]

\* getEditorContent after loadTab returned entry: the code under key, else null
getEditorContent(entry, source, key) ==
  IF ~IsSome(entry) THEN None
  ELSE LET snapshot == IF source = "latest" THEN Some(Val(entry).latest)
                       ELSE Val(entry).previous
       IN IF ~IsSome(snapshot) THEN None
          ELSE LET hit == SelectSeq(Val(snapshot).editorContents,
                                    LAMBDA e : e.key = key)
               IN IF hit = <<>> \/ hit[1].code = <<>> THEN None ELSE Some(hit[1].code)

\* getChunks after loadTab (lines 240-247): the items are returned
GetReturn(p) ==
  /\ ops[p].pc = "get_loaded"
  /\ ret' = [Return("getChunks", DiffOf("none"), FALSE) EXCEPT
               !.items = getChunks(ops[p].existing, ops[p].source, ops[p].indices)]
  /\ ops' = [ops EXCEPT ![p] = IdleOp]
  /\ UNCHANGED <<tabs, storage, now, ticks, started, wver>>
  /\ UNCHANGED <<clientVars, chatVars, splitVars, parseVars, auxVars>>

\* getChunks up to the await in loadTab (line 239)
GetStart(p, t, source, indices) ==
  /\ ops[p].pc = "idle"
  /\ started < MaxOps
  /\ started' = started + 1
  /\ ops' = [ops EXCEPT ![p] =
       [IdleOp EXCEPT !.kind = "getChunks", !.tab = t, !.source = source,
                      !.indices = indices,
                      !.pc = IF IsSome(tabs[t]) THEN "get_loaded" ELSE "load_get",
                      !.existing = tabs[t]]]
  /\ UNCHANGED <<tabs, storage, now, ticks, ret, wver>>
  /\ UNCHANGED <<clientVars, chatVars, splitVars, parseVars, auxVars>>

\* a page longer than one chunk, and a short page of another url
LongText == [i \in 1..(DEFAULT_CHUNK_SIZE + 1) |-> "a"]
GetContents ==
  { [url |-> "u1", title |-> "t1", markdown |-> <<"a", NL, "b">>, editorContents |-> NoEditors],
    [url |-> "u3", title |-> "t3", markdown |-> LongText, editorContents |-> NoEditors] }

\* the indices a caller asks for: in range, repeated, negative, past the end, none
GetIndices == { <<1, 0, MAX_CHUNKS, -1, 1>>, <<MAX_CHUNKS - 1>>, <<>> }

GetNext ==
  \/ Restart
  \/ \E p \in Procs, t \in Tabs, c \in GetContents : PushStart(p, t, c)
  \/ \E p \in Procs, ok \in BOOLEAN : LoadGet(p, ok)
  \/ \E p \in Procs : LoadResume(p)
  \/ \E p \in Procs : PushDecide(p)
  \/ \E p \in Procs, ok \in BOOLEAN : PushSaved(p, ok)
  \/ \E p \in Procs, t \in Tabs, source \in {"latest", "previous"},
        indices \in GetIndices : GetStart(p, t, source, indices)
  \/ \E p \in Procs : GetReturn(p)

----------------------------------------------------------------------------
(* Pushes of pages that differ by url, by text, and by a share of their lines *)

Lines(n) == [i \in 1..(2 * n) |-> IF i % 2 = 1 THEN "a" ELSE NL]

DiffContents ==
  PushContents \cup
  { [url |-> "u2", title |-> "t2", markdown |-> <<"a", NL, "b">>, editorContents |-> NoEditors],
    [url |-> "u1", title |-> "t1", markdown |-> Lines(10), editorContents |-> NoEditors],
    [url |-> "u1", title |-> "t1", markdown |-> Lines(7), editorContents |-> NoEditors] }

\* one caller pushing page after page, each push awaited before the next
PushNext ==
  \/ \E d \in ClockSteps : Tick(d)
  \/ Restart
  \/ \E t \in Tabs, c \in DiffContents : PushStart(1, t, c)
  \/ \E ok \in BOOLEAN : LoadGet(1, ok)
  \/ LoadResume(1)
  \/ PushDecide(1)
  \/ \E ok \in BOOLEAN : PushSaved(1, ok)

----------------------------------------------------------------------------
(* Stream decoding: the events parseStream yields for one data: payload *)

Part(hasText, thought, functionCall) ==
  [text |-> hasText, thought |-> thought, functionCall |-> functionCall]

Chunk(kind, rawPart, functionCall) ==
  [kind |-> kind, rawPart |-> rawPart, functionCall |-> functionCall]

\* lines 333-349: the chunks of one part
PartChunks(part) ==
  (IF part.text
   THEN <<Chunk(IF part.thought THEN "thinking" ELSE "text", Some(part), None)>>
   ELSE <<>>)
  \o (IF IsSome(part.functionCall)
      THEN <<Chunk("functionCall", Some(part), part.functionCall)>>
      ELSE <<>>)

RECURSIVE PartsChunks(_)
PartsChunks(parts) ==
  IF parts = <<>> THEN <<>> ELSE PartChunks(Head(parts)) \o PartsChunks(Tail(parts))

\* lines 328-366: the chunks of one parsed payload
PayloadChunks(payload) ==
  PartsChunks(payload.parts)
  \o (IF payload.finishReason THEN <<Chunk("finishReason", None, None)>> ELSE <<>>)
  \o (IF payload.usage THEN <<Chunk("usage", None, None)>> ELSE <<>>)

\* streamGeminiChat, lines 425-439: the events yielded for what executeRequest
\* returned, before those decoded from the response body
RequestEvents(res) ==
  IF IsSome(res.error) \/ res.response = 0
  THEN <<Chunk("error", None, None)>>
  ELSE <<>>

----------------------------------------------------------------------------
(* What the provider may send *)

Args(indices, keys, key, find, replace) ==
  [source |-> None, indices |-> indices, keys |-> keys, key |-> key, find |-> find,
   replace |-> replace]

NoArgs == Args(None, None, None, None, None)

FunctionCall(name, args) == [name |-> name, args |-> args]

FC_read == FunctionCall("read_page_chunks", Args(Some(<<0, 7>>), None, None, None, None))
FC_editor ==
  FunctionCall("read_editable_content",
               [Args(None, Some(<<"monaco_1", "x">>), None, None, None)
                  EXCEPT !.source = Some("latest")])
FC_editorNoKeys == FunctionCall("read_editable_content", NoArgs)
FC_write ==
  FunctionCall("write_editable_content",
               Args(None, None, Some("monaco_1"), Some(""), Some("c")))
FC_unknown == FunctionCall("other_tool", NoArgs)

Payload(parts, finishReason, usage) ==
  [parts |-> parts, finishReason |-> finishReason, usage |-> usage]

Payloads ==
  { Payload(<<Part(TRUE, FALSE, None)>>, FALSE, FALSE),
    Payload(<<Part(TRUE, TRUE, None)>>, FALSE, FALSE),
    Payload(<<Part(FALSE, FALSE, Some(FC_read))>>, FALSE, FALSE),
    Payload(<<Part(FALSE, FALSE, Some(FC_editor))>>, FALSE, FALSE),
    Payload(<<Part(FALSE, FALSE, Some(FC_editorNoKeys))>>, FALSE, FALSE),
    Payload(<<Part(FALSE, FALSE, Some(FC_write))>>, FALSE, FALSE),
    Payload(<<Part(FALSE, FALSE, Some(FC_unknown))>>, FALSE, FALSE),
    Payload(<<Part(TRUE, FALSE, Some(FC_read))>>, FALSE, FALSE),
    Payload(<<>>, TRUE, TRUE),
    Payload(<<Part(TRUE, FALSE, None)>>, TRUE, FALSE) }

\* the page the turn reads: a page with one editor, or a failed extraction
PageReads ==
  { [url |-> "u1", title |-> "t1", markdown |-> <<"a", NL, "c">>,
     editorContents |-> <<[key |-> "monaco_1", label |-> "l", code |-> <<"c">>]>>],
    [url |-> "u1", title |-> "t1", markdown |-> <<>>, editorContents |-> NoEditors] }

----------------------------------------------------------------------------
(* parseStream: the decoder of the response body, read by read *)

IdleParse ==
  /\ parsePc = "idle"
  /\ streamReads = <<>>
  /\ readCount = 0
  /\ buffer = <<>>
  /\ yielded = <<>>

RECURSIVE Flatten(_)
Flatten(seqs) == IF seqs = <<>> THEN <<>> ELSE Head(seqs) \o Flatten(Tail(seqs))

\* String.prototype.split("\n"): the pieces between the line breaks
RECURSIVE SplitNL(_)
SplitNL(s) ==
  LET breaks == { i \in 1..Len(s) : s[i] = NL }
  IN IF breaks = {} THEN <<s>>
     ELSE LET i == CHOOSE b \in breaks : \A c \in breaks : b <= c
          IN <<SubSeq(s, 1, i - 1)>> \o SplitNL(SubSeq(s, i + 1, Len(s)))

DATA_PREFIX == <<"d", "a", "t", "a", ":">>

\* line 315: line.startsWith("data:")
StartsWithData(line) ==
  Len(line) >= Len(DATA_PREFIX) /\ SubSeq(line, 1, Len(DATA_PREFIX)) = DATA_PREFIX

\* JSON.parse over the JSON texts of the model: {1} is a payload with a text
\* part, {2} a payload with a finish reason and usage, {0} an object without a
\* response member; any other text makes JSON.parse throw (None)
JsonParse(jsonStr) ==
  IF jsonStr = <<"{", "1", "}">>
  THEN Some([response |-> Some(Payload(<<Part(TRUE, FALSE, None)>>, FALSE, FALSE))])
  ELSE IF jsonStr = <<"{", "2", "}">>
  THEN Some([response |-> Some(Payload(<<>>, TRUE, TRUE))])
  ELSE IF jsonStr = <<"{", "0", "}">>
  THEN Some([response |-> None])
  ELSE None

\* lines 315-366: the chunks yielded for one complete line
LineChunks(line) ==
  IF ~StartsWithData(line) THEN <<>>
  ELSE LET jsonStr == Trim(SubSeq(line, Len(DATA_PREFIX) + 1, Len(line)))
       IN IF jsonStr = <<>> THEN <<>>
          ELSE LET chunk == JsonParse(jsonStr)
               IN IF ~IsSome(chunk) THEN <<>>
                  ELSE IF ~IsSome(Val(chunk).response) THEN <<>>
                  ELSE PayloadChunks(Val(Val(chunk).response))

\* line 313 losing the unfinished line
RemainderDropped(lines) == <<>>

\* line 313: buffer = lines.pop() || ""
Remainder(lines) == lines[Len(lines)]

\* lines 308-367: reader.read() returns a value; its complete lines are decoded
ParseRead ==
  /\ parsePc = "read"
  /\ readCount < Len(streamReads)
  /\ LET lines == SplitNL(buffer \o streamReads[readCount + 1])
         complete == SubSeq(lines, 1, Len(lines) - 1)
     IN /\ buffer' = Remainder(lines)
        /\ yielded' = yielded \o Flatten([i \in 1..Len(complete) |-> LineChunks(complete[i])])
  /\ readCount' = readCount + 1
  /\ UNCHANGED <<parsePc, streamReads>>
  /\ UNCHANGED <<storeVars, clientVars, chatVars, splitVars, auxVars>>

\* lines 308-309 and 369-371: reader.read() returns done; the generator returns
ParseDone ==
  /\ parsePc = "read"
  /\ readCount = Len(streamReads)
  /\ parsePc' = "done"
  /\ UNCHANGED <<streamReads, readCount, buffer, yielded>>
  /\ UNCHANGED <<storeVars, clientVars, chatVars, splitVars, auxVars>>

ParseNext == ParseRead \/ ParseDone

\* the lines a body is made of: events with and without a blank after the colon
\* and with a carriage return, a truncated JSON text, the blank line between
\* events, a comment line, an event whose JSON has no response member
StreamLines ==
  { <<"d", "a", "t", "a", ":", " ", "{", "1", "}">>,
    <<"d", "a", "t", "a", ":", "{", "2", "}", CR>>,
    <<"d", "a", "t", "a", ":", " ", "{", "1">>,
    <<>>,
    <<":", "k">>,
    <<"d", "a", "t", "a", ":", "{", "0", "}">> }

\* what may follow the last line break of a body: nothing, or an unfinished line
StreamTails == { <<>>, <<"d", "a", "t", "a", ":", " ", "{", "1", "}">> }

\* the bodies: up to MaxLines lines, each ended by a line break, then a tail
StreamBodies ==
  { Flatten([i \in 1..Len(ls) |-> Append(ls[i], NL)]) \o tail :
      ls \in UNION { [1..n -> StreamLines] : n \in 0..MaxLines }, tail \in StreamTails }

\* the reads of a body cut at the positions cuts (each read is at least one character)
ReadsOf(body, cuts) ==
  LET at(k) == IF k = 0 THEN 0
               ELSE IF k > Cardinality(cuts) THEN Len(body)
               ELSE CHOOSE c \in cuts : Cardinality({ d \in cuts : d <= c }) = k
  IN IF body = <<>> THEN <<>>
     ELSE [k \in 1..(Cardinality(cuts) + 1) |-> SubSeq(body, at(k - 1) + 1, at(k))]

\* every way of cutting a body into at most MaxCuts + 1 reads
StreamReadings ==
  UNION { { ReadsOf(body, { f[i] : i \in 1..MaxCuts } \ {0}) :
              f \in [1..MaxCuts -> 0..(Len(body) - 1)] } : body \in StreamBodies }

----------------------------------------------------------------------------
(* The chat handler (port.onMessage, type "chat") *)

MAX_TOOL_ROUNDS == 50

READ_TOOLS == {"read_page_chunks", "read_editable_content"}
ASK_TOOLS == READ_TOOLS
EDIT_TOOLS == READ_TOOLS \cup {"write_editable_content"}

Event(type, what, flag) == [type |-> type, what |-> what, aborted |-> flag]

Turn(role, parts) == [role |-> role, parts |-> parts]

ToolResult(kind, chunks, editor) ==
  [kind |-> kind, chunks |-> chunks, editor |-> editor, error |-> "", status |-> ""]

\* the catch records the error without the failed status
ToolErrorResultUnmarked(message) ==
  [kind |-> "error", chunks |-> <<>>, editor |-> <<>>, error |-> message,
   status |-> ""]

\* lines 800-803: the result recorded for a tool call that threw
ToolErrorResult(message) ==
  [kind |-> "error", chunks |-> <<>>, editor |-> <<>>, error |-> message,
   status |-> "failed"]

FunctionResponse(name, content) == [name |-> name, content |-> content]

IdleChat ==
  /\ hpc = "idle"
  /\ agentMode = "ask"
  /\ activeTabId = None
  /\ tools = {}
  /\ round = 0
  /\ modelParts = <<>>
  /\ heldUsage = None
  /\ heldFinishReason = None
  /\ calls = <<>>
  /\ functionResponses = <<>>
  /\ aborted = FALSE
  /\ streamAborted = FALSE
  /\ convLen = 0
  /\ convNew = <<>>
  /\ posted = <<>>
  /\ clientCalls = 0
  /\ pageWrites = <<>>
  /\ emitted = <<>>
  /\ reads = 0
  /\ raised = <<>>
  /\ abortedAt = "none"
  /\ ending = "running"

\* lines 835-843: the end of the handler after the loop
Done(flag) == Event("done", "", flag)

\* the catch of the handler posting the error only
CatchEventsNoDone == <<Event("error", "", FALSE)>>

\* lines 844-847: the catch of the handler
CatchEvents == <<Event("error", "", FALSE), Event("done", "", FALSE)>>

\* the loop body forwarding every event at once, finish reason and usage included
ConsumeChunkForwarding(st, chunk) ==
  LET pushed == IF IsSome(chunk.rawPart)
                THEN [st EXCEPT !.modelParts = Append(@, Val(chunk.rawPart))]
                ELSE st
  IN IF chunk.kind = "functionCall" THEN pushed
     ELSE [pushed EXCEPT !.posted = Append(@, Event("chunk", chunk.kind, FALSE))]

\* lines 707-721: the loop body for one chunk, on the record of the loop's locals
ConsumeChunk(st, chunk) ==
  LET pushed == IF IsSome(chunk.rawPart)
                THEN [st EXCEPT !.modelParts = Append(@, Val(chunk.rawPart))]
                ELSE st
  IN IF chunk.kind = "functionCall" THEN pushed
     ELSE IF chunk.kind = "finishReason"
       THEN [pushed EXCEPT !.heldFinishReason = Some("STOP")]
     ELSE IF chunk.kind = "usage" THEN [pushed EXCEPT !.heldUsage = Some("usage")]
     ELSE [pushed EXCEPT !.posted = Append(@, Event("chunk", chunk.kind, FALSE))]

RECURSIVE ConsumeAll(_, _)
ConsumeAll(st, chunks) ==
  IF chunks = <<>> THEN st ELSE ConsumeAll(ConsumeChunk(st, Head(chunks)), Tail(chunks))

\* lines 724-726
FunctionCallsOf(parts) ==
  LET withCall == SelectSeq(parts, LAMBDA q : IsSome(q.functionCall))
  IN [i \in 1..Len(withCall) |-> Val(withCall[i].functionCall)]

\* lines 729-733: the held metrics forwarded for a round without tool call
HeldEvents(finishReason, usage) ==
  (IF IsSome(finishReason) THEN <<Event("chunk", "finishReason", FALSE)>> ELSE <<>>)
  \o (IF IsSome(usage) THEN <<Event("chunk", "usage", FALSE)>> ELSE <<>>)

\* the for loop with an off-by-one bound
LoopContinuesInclusive(r) == r <= MAX_TOOL_ROUNDS

\* line 682: the for loop goes on
LoopContinues(r) == r < MAX_TOOL_ROUNDS

\* the handler leaves the loop and posts done
EndTurn(events, flag, how) ==
  /\ hpc' = "ended"
  /\ posted' = events \o <<Done(flag)>>
  /\ streamAborted' = flag
  /\ ending' = how

\* lines 548-658: the message arrives; token, credentials, page context, conversation
\* (pruneStale at line 587 finds the storage of a fresh worker empty and removes nothing)
ChatStart(mode, prep, page, history) ==
  /\ hpc = "idle"
  /\ agentMode' = mode
  /\ IF prep \in {"token_throws", "not_logged_in"}
     THEN /\ hpc' = "ended"
          /\ posted' = CatchEvents
          /\ ending' = prep
          /\ UNCHANGED <<activeTabId, convLen, tabs, storage, ret, wver>>
     ELSE /\ hpc' = "loop_top"
          /\ convLen' = history + 1
          /\ UNCHANGED <<posted, ending>>
          /\ IF prep = "tab"
             THEN LET snap == Snapshot(page, now)
                      entry == PushEntry(tabs[1], snap, now)
                  IN /\ activeTabId' = Some(1)
                     /\ tabs' = [tabs EXCEPT ![1] = Some(entry)]
                     /\ storage' = [storage EXCEPT ![1] = Some(entry)]
                     /\ wver' = [wver EXCEPT ![1] = @ + 1]
                     /\ ret' = Return("push", PushDiff(tabs[1], snap, now), FALSE)
             ELSE /\ activeTabId' = None
                  /\ UNCHANGED <<tabs, storage, ret, wver>>
  /\ UNCHANGED <<tools, round, modelParts, heldUsage, heldFinishReason, calls,
                 functionResponses, aborted, streamAborted, convNew, clientCalls,
                 pageWrites, emitted, reads, raised, abortedAt>>
  /\ UNCHANGED <<now, ticks, ops, started, clientVars, splitVars, parseVars, auxVars>>

\* lines 683-702: top of the loop body, up to the call of streamGeminiChat
StreamStart ==
  /\ hpc = "loop_top"
  /\ IF aborted
     THEN /\ EndTurn(<<>>, TRUE, "aborted")
          /\ UNCHANGED <<tools, clientCalls, convLen, convNew>>
     ELSE /\ hpc' = "request"
          /\ tools' = IF IsSome(activeTabId)
                      THEN (IF agentMode = "edit" THEN EDIT_TOOLS ELSE ASK_TOOLS)
                      ELSE {}
          /\ clientCalls' = clientCalls + 1
          /\ convLen' = convLen + Len(convNew)
          /\ convNew' = <<>>
          /\ posted' = <<>>
          /\ UNCHANGED <<streamAborted, ending>>
  /\ modelParts' = <<>>
  /\ heldUsage' = None
  /\ heldFinishReason' = None
  /\ calls' = <<>>
  /\ functionResponses' = <<>>
  /\ pageWrites' = <<>>
  /\ emitted' = <<>>
  /\ reads' = 0
  /\ raised' = <<>>
  /\ UNCHANGED <<agentMode, activeTabId, round, aborted, abortedAt>>
  /\ UNCHANGED <<storeVars, clientVars, splitVars, parseVars, auxVars>>

\* a stop message or the disconnect of the port, while the handler is suspended
Abort ==
  /\ hpc \in {"request", "body", "tool_wait"}
  /\ ~aborted
  /\ aborted' = TRUE
  /\ abortedAt' = hpc
  /\ UNCHANGED <<hpc, agentMode, activeTabId, tools, round, modelParts, heldUsage,
                 heldFinishReason, calls, functionResponses, streamAborted, convLen,
                 convNew, posted, clientCalls, pageWrites, emitted, reads, raised,
                 ending>>
  /\ UNCHANGED <<storeVars, clientVars, splitVars, parseVars, auxVars>>

\* executeRequest returns: a response to decode, or the single error chunk, which
\* is the only chunk of the round (lines 703-733 handle it)
RequestSettles(ok) ==
  /\ hpc = "request"
  /\ aborted => ~ok
  /\ IF ok
     THEN /\ hpc' = "body"
          /\ UNCHANGED <<posted, streamAborted, ending>>
     ELSE IF aborted
     THEN EndTurn(posted, TRUE, "aborted")
     ELSE EndTurn(Append(posted, Event("chunk", "error", FALSE)), FALSE, "completed")
  /\ UNCHANGED <<agentMode, activeTabId, tools, round, modelParts, heldUsage,
                 heldFinishReason, calls, functionResponses, aborted, convLen, convNew,
                 clientCalls, pageWrites, emitted, reads, raised, abortedAt>>
  /\ UNCHANGED <<storeVars, clientVars, splitVars, parseVars, auxVars>>

\* reader.read() returns one payload: its chunks run through the loop body
BodyData(payload) ==
  /\ hpc = "body"
  /\ ~aborted
  /\ reads < MaxReads
  /\ reads' = reads + 1
  /\ emitted' = emitted \o payload.parts
  /\ LET st == ConsumeAll([modelParts |-> modelParts, heldUsage |-> heldUsage,
                           heldFinishReason |-> heldFinishReason, posted |-> posted],
                          PayloadChunks(payload))
     IN /\ modelParts' = st.modelParts
        /\ heldUsage' = st.heldUsage
        /\ heldFinishReason' = st.heldFinishReason
        /\ posted' = st.posted
  /\ UNCHANGED <<hpc, agentMode, activeTabId, tools, round, calls, functionResponses,
                 aborted, streamAborted, convLen, convNew, clientCalls, pageWrites,
                 raised, abortedAt, ending>>
  /\ UNCHANGED <<storeVars, clientVars, splitVars, parseVars, auxVars>>

\* reader.read() rejects (the signal aborted the body, or the network failed):
\* the exception leaves the loop and reaches the catch of the handler
BodyThrows ==
  /\ hpc = "body"
  /\ hpc' = "ended"
  /\ posted' = posted \o CatchEvents
  /\ ending' = "threw"
  /\ UNCHANGED <<agentMode, activeTabId, tools, round, modelParts, heldUsage,
                 heldFinishReason, calls, functionResponses, aborted, streamAborted,
                 convLen, convNew, clientCalls, pageWrites, emitted, reads, raised,
                 abortedAt>>
  /\ UNCHANGED <<storeVars, clientVars, splitVars, parseVars, auxVars>>

\* reader.read() returns done: the round's stream is over (lines 724-736)
BodyEnds ==
  /\ hpc = "body"
  /\ ~aborted
  /\ LET functionCallsToExecute == FunctionCallsOf(modelParts)
     IN IF functionCallsToExecute = <<>>
        THEN /\ EndTurn(posted \o HeldEvents(heldFinishReason, heldUsage), FALSE,
                        "completed")
             /\ UNCHANGED calls
        ELSE /\ hpc' = "tools"
             /\ calls' = functionCallsToExecute
             /\ UNCHANGED <<posted, streamAborted, ending>>
  /\ UNCHANGED <<agentMode, activeTabId, tools, round, modelParts, heldUsage,
                 heldFinishReason, functionResponses, aborted, convLen, convNew,
                 clientCalls, pageWrites, emitted, reads, raised, abortedAt>>
  /\ UNCHANGED <<storeVars, clientVars, splitVars, parseVars, auxVars>>

\* lines 806-832 and the loop header: a tool call is over with toolResult; after
\* the last one the turns are appended and the loop goes on or ends
AfterTool(name, toolResult, threw, events) ==
  LET responses == Append(functionResponses, FunctionResponse(name, toolResult))
      modelTurn == Turn("model", modelParts)
  IN /\ functionResponses' = responses
     /\ raised' = Append(raised, threw)
     /\ IF Len(responses) < Len(calls)
        THEN /\ hpc' = "tools"
             /\ posted' = events
             /\ UNCHANGED <<round, convNew, streamAborted, ending>>
        ELSE IF aborted
        THEN /\ convNew' = <<modelTurn>>
             /\ EndTurn(events, TRUE, "aborted")
             /\ UNCHANGED round
        ELSE /\ convNew' = <<modelTurn, Turn("user", responses)>>
             /\ round' = round + 1
             /\ IF LoopContinues(round + 1)
                THEN /\ hpc' = "loop_top"
                     /\ posted' = events
                     /\ UNCHANGED <<streamAborted, ending>>
                ELSE EndTurn(events, FALSE, "max_rounds")

\* lines 738-804 for the next tool call, up to its result or to the page write
ToolStep ==
  /\ hpc = "tools"
  /\ LET functionCall == calls[Len(functionResponses) + 1]
         name == functionCall.name
         args == functionCall.args
         source == IF IsSome(args.source) THEN Val(args.source) ELSE "latest"
         ok(toolResult) == AfterTool(name, toolResult, FALSE,
                                 Append(posted, Event("toolCall", name, FALSE)))
         throw(message) == AfterTool(name, ToolErrorResult(message), TRUE, posted)
     IN IF ~IsSome(activeTabId)
        THEN throw("No active tab found to read content from.") /\ UNCHANGED pageWrites
        ELSE IF name = "read_page_chunks"
        THEN /\ ok(ToolResult("chunks",
                              getChunks(tabs[Val(activeTabId)], source,
                                        IF IsSome(args.indices) THEN Val(args.indices)
                                        ELSE <<>>),
                              <<>>))
             /\ UNCHANGED pageWrites
        ELSE IF name = "read_editable_content"
        THEN /\ IF ~IsSome(args.keys)
                THEN throw("Missing 'keys' parameter for read_editable_content")
                ELSE LET keys == Val(args.keys)
                         found == SelectSeq(keys, LAMBDA k :
                                    IsSome(getEditorContent(tabs[Val(activeTabId)],
                                                            source, k)))
                     IN ok(ToolResult("editor", <<>>,
                             [i \in 1..Len(found) |->
                                <<found[i],
                                  Val(getEditorContent(tabs[Val(activeTabId)],
                                                       source, found[i]))>>]))
             /\ UNCHANGED pageWrites
        ELSE IF name = "write_editable_content"
        THEN IF ~IsSome(args.key) \/ ~IsSome(args.find) \/ ~IsSome(args.replace)
             THEN /\ throw("Missing required parameters (key, find, replace) for write_editable_content")
                  /\ UNCHANGED pageWrites
             ELSE /\ hpc' = "tool_wait"
                  /\ pageWrites' = Append(pageWrites, args)
                  /\ UNCHANGED <<functionResponses, raised, posted, round, convNew,
                                 streamAborted, ending>>
        ELSE throw("Unknown tool") /\ UNCHANGED pageWrites
  /\ UNCHANGED <<agentMode, activeTabId, tools, modelParts, heldUsage, heldFinishReason,
                 calls, aborted, convLen, clientCalls, emitted, reads, abortedAt>>
  /\ UNCHANGED <<storeVars, clientVars, splitVars, parseVars, auxVars>>

\* writeEditorContent returns (lines 779-785)
WriteReturns(success) ==
  /\ hpc = "tool_wait"
  /\ LET name == calls[Len(functionResponses) + 1].name
     IN IF success
        THEN AfterTool(name, ToolResult("write_ok", <<>>, <<>>), FALSE,
                       Append(posted, Event("toolCall", name, FALSE)))
        ELSE AfterTool(name, ToolErrorResult("Write failed"), TRUE, posted)
  /\ UNCHANGED <<agentMode, activeTabId, tools, modelParts, heldUsage, heldFinishReason,
                 calls, aborted, convLen, clientCalls, pageWrites, emitted, reads,
                 abortedAt>>
  /\ UNCHANGED <<storeVars, clientVars, splitVars, parseVars, auxVars>>

----------------------------------------------------------------------------
(* The side panel's port listener: the assistant message after the events *)

STOPPED_MARKER == "*[Stopped by user]*"
ERROR_TEXT == "Error"

RECURSIVE SidepanelContent(_, _)
SidepanelContent(content, events) ==
  IF events = <<>> THEN content
  ELSE LET msg == Head(events)
       IN IF msg.type = "chunk" /\ msg.what = "text"
          THEN SidepanelContent(Append(content, "text"), Tail(events))
          ELSE IF msg.type = "error"
          THEN SidepanelContent(<<ERROR_TEXT>>, Tail(events))
          ELSE IF msg.type = "done"
          THEN (IF msg.aborted THEN Append(content, STOPPED_MARKER) ELSE content)
          ELSE SidepanelContent(content, Tail(events))

ChatPreps == {"token_throws", "not_logged_in", "no_tab", "tab"}
HistoryLengths == {0, 2}

ChatNext ==
  \/ \E mode \in {"ask", "edit"}, prep \in ChatPreps, page \in PageReads,
        history \in HistoryLengths : ChatStart(mode, prep, page, history)
  \/ StreamStart
  \/ Abort
  \/ \E ok \in BOOLEAN : RequestSettles(ok)
  \/ \E payload \in Payloads : BodyData(payload)
  \/ BodyThrows
  \/ BodyEnds
  \/ ToolStep
  \/ \E success \in BOOLEAN : WriteReturns(success)

----------------------------------------------------------------------------
(* messagesToApiHistory (utils.ts): the history sent with a chat message   *)

MAX_HISTORY_MESSAGES == 25

IdleHist ==
  /\ histPc = "idle"
  /\ histInput = <<>>
  /\ histResult = <<>>

\* Message: role "user" or "assistant", content a string
Message(role, content) == [role |-> role, content |-> content]

\* the .map callback: role user stays, any other role becomes model; one text part
ApiMessage(m) ==
  [role |-> IF m.role = "user" THEN "user" ELSE "model", parts |-> <<[text |-> m.content]>>]

\* Array.prototype.slice(-n) for n > 0
SliceLast(s, n) == SubSeq(s, Max(1, Len(s) - n + 1), Len(s))

\* the window applied before the empty messages are removed
messagesToApiHistoryWindowFirst(messages) ==
  LET window == SliceLast(messages, MAX_HISTORY_MESSAGES)
      kept == SelectSeq(window, LAMBDA m : m.content # <<>>)
  IN [i \in 1..Len(kept) |-> ApiMessage(kept[i])]

\* filter (content truthy), map, slice(-MAX_HISTORY_MESSAGES)
messagesToApiHistory(messages) ==
  LET kept == SelectSeq(messages, LAMBDA m : m.content # <<>>)
      filtered == [i \in 1..Len(kept) |-> ApiMessage(kept[i])]
  IN SliceLast(filtered, MAX_HISTORY_MESSAGES)

\* the call returns
HistReturn ==
  /\ histPc = "call"
  /\ histPc' = "done"
  /\ histResult' = messagesToApiHistory(histInput)
  /\ UNCHANGED histInput
  /\ UNCHANGED <<storeVars, clientVars, chatVars, splitVars, parseVars, mutexVars, portVars>>

HistNext == HistReturn

\* every conversation of up to MaxShort messages over two roles and three texts
\* (the empty string is falsy, a blank is not)
ShortHistories ==
  UNION { [1..n -> { Message(r, c) : r \in {"user", "assistant"},
                                     c \in {<<>>, <<" ">>, <<"a">>} }] : n \in 0..MaxShort }

\* the conversations of utils.test.ts: n messages of alternating roles whose
\* content is their number, every k-th of them empty (k = 0: none empty)
LongHistory(n, k) ==
  [i \in 1..n |->
     Message(IF i % 2 = 1 THEN "user" ELSE "assistant",
             IF k > 0 /\ i % k = 0 THEN <<>>
             ELSE Digits(i \div 10, 1) \o Digits(i % 10, 1))]

\* lengths around the window; with empty messages the length is doubled
LongHistories ==
  { LongHistory(IF k = 0 THEN n ELSE 2 * n, k) :
      n \in (MAX_HISTORY_MESSAGES - 1)..(MAX_HISTORY_MESSAGES + MaxExtra), k \in 0..3 }

----------------------------------------------------------------------------
(* AsyncMutex (sessions.ts, auth.ts): lock and runExclusive                *)

Callers == 1..NumCallers

\* what lock() can resolve with: the initial value of begin, or the resolve
\* function of the promise made for link k
NoopBegin == [kind |-> "noop", link |-> 0]
ResolveOf(k) == [kind |-> "resolve", link |-> k]

\* one link of this.mutex: the promise .then() returned for one lock() call;
\* "waiting": its callback has not run, "pending": the callback ran and its
\* promise is not resolved, "resolved"
Link(begin, state) == [begin |-> begin, state |-> state]

IdleMutex ==
  /\ mpc = [c \in Callers |-> "idle"]
  /\ unlockFn = [c \in Callers |-> NoopBegin]
  /\ chain = <<>>

\* runExclusive up to `await this.lock()`. lock() runs synchronously: begin is
\* the no-op (line 25), .then() registers the callback (27-31), the executor of
\* the returned promise calls resolve(begin) with the value begin has then (33-35)
RunExclusive(c) ==
  /\ mpc[c] = "idle"
  /\ Len(chain) < MaxLocks
  /\ LET begin == NoopBegin
     IN /\ chain' = Append(chain, Link(begin, "waiting"))
        /\ unlockFn' = [unlockFn EXCEPT ![c] = begin]
  /\ mpc' = [mpc EXCEPT ![c] = "await_lock"]
  /\ UNCHANGED <<storeVars, clientVars, chatVars, splitVars, parseVars, histVars, portVars>>

\* the callback given to .then() runs once the link before it is resolved
\* (the first link follows Promise.resolve()): begin = resolve
ThenCallbackDue(k) ==
  /\ chain[k].state = "waiting"
  /\ IF k = 1 THEN TRUE ELSE chain[k - 1].state = "resolved"

ThenCallback(k) ==
  /\ k \in 1..Len(chain)
  /\ ThenCallbackDue(k)
  /\ chain' = [chain EXCEPT ![k] = Link(ResolveOf(k), "pending")]
  /\ UNCHANGED <<mpc, unlockFn>>
  /\ UNCHANGED <<storeVars, clientVars, chatVars, splitVars, parseVars, histVars, portVars>>

\* `await this.lock()` resumes (the promise was resolved when it was made, its
\* continuation runs after the microtasks queued before it); callback() is
\* called and runs up to its first await
CallbackStarts(c) ==
  /\ mpc[c] = "await_lock"
  /\ \A k \in 1..Len(chain) : ~ThenCallbackDue(k)
  /\ mpc' = [mpc EXCEPT ![c] = "in_callback"]
  /\ UNCHANGED <<unlockFn, chain>>
  /\ UNCHANGED <<storeVars, clientVars, chatVars, splitVars, parseVars, histVars, portVars>>

\* the callback settles (returns or throws); finally: unlock()
CallbackSettles(c) ==
  /\ mpc[c] = "in_callback"
  /\ chain' = IF unlockFn[c].kind = "resolve"
              THEN [chain EXCEPT ![unlockFn[c].link].state = "resolved"]
              ELSE chain
  /\ mpc' = [mpc EXCEPT ![c] = "idle"]
  /\ UNCHANGED unlockFn
  /\ UNCHANGED <<storeVars, clientVars, chatVars, splitVars, parseVars, histVars, portVars>>

MutexNext ==
  \/ \E c \in Callers : RunExclusive(c)
  \/ \E k \in 1..MaxLocks : ThenCallback(k)
  \/ \E c \in Callers : CallbackStarts(c)
  \/ \E c \in Callers : CallbackSettles(c)

----------------------------------------------------------------------------
(* One chat connection: the messages it receives and the page context of   *)
(* each turn (background.ts, onConnect)                                     *)

PortTabs == 1..NumPortTabs
PortUrls == {"u1", "u2"}

IdlePort ==
  /\ lastSeenTabId = None
  /\ lastSeenUrl = None
  /\ activeTab = 1
  /\ tabUrl = [t \in PortTabs |-> "u1"]
  /\ seen = [t \in PortTabs |-> None]
  /\ turns = <<>>

IdleAux == IdleHist /\ IdleMutex /\ IdlePort

\* one invocation of the onMessage listener; lastTab, lastUrl, tab and url are
\* what it found when it built the page context, told is what the page-context
\* section says about the page
Invocation(pc, enabled) ==
  [pc |-> pc, pageContextEnabled |-> enabled, lastTab |-> None, lastUrl |-> None,
   tab |-> 0, url |-> "", told |-> "none"]

\* the user loads another page in a tab
Navigate(t, u) ==
  /\ tabUrl[t] # u
  /\ tabUrl' = [tabUrl EXCEPT ![t] = u]
  /\ UNCHANGED <<lastSeenTabId, lastSeenUrl, activeTab, seen, turns>>
  /\ UNCHANGED <<storeVars, clientVars, chatVars, splitVars, parseVars, histVars, mutexVars>>

\* the user selects another tab
Activate(t) ==
  /\ activeTab # t
  /\ activeTab' = t
  /\ UNCHANGED <<lastSeenTabId, lastSeenUrl, tabUrl, seen, turns>>
  /\ UNCHANGED <<storeVars, clientVars, chatVars, splitVars, parseVars, histVars, mutexVars>>

\* a chat message arrives on the port: the listener runs up to its first await
\* (line 545 tests msg.type only)
ChatMessage(enabled) ==
  /\ Len(turns) < MaxTurns
  /\ turns' = Append(turns, Invocation("context", enabled))
  /\ UNCHANGED <<lastSeenTabId, lastSeenUrl, activeTab, tabUrl, seen>>
  /\ UNCHANGED <<storeVars, clientVars, chatVars, splitVars, parseVars, histVars, mutexVars>>

\* what the content script returns for a page, and the empty snapshot pushed
\* when the extraction failed
PageContent(url, extracted) ==
  [url |-> url, title |-> "t", markdown |-> IF extracted THEN <<"a", NL, "b">> ELSE <<>>,
   editorContents |-> NoEditors]

\* pruneStale with the cache and the durable store in agreement
PortPruned(entries, at) ==
  [t \in PortTabs |->
     IF /\ IsSome(entries[t])
        /\ Val(entries[t]).latest.updatedAt # 0
        /\ at - Val(entries[t]).latest.updatedAt > TTL_MS
     THEN None ELSE entries[t]]

\* lines 600-603 and 635-637: what the page-context section says about the page:
\* the case of buildPageContextPrompt taken, or the note of the failed extraction
Told(tabSwitched, urlChangedSameTab, extracted, diff) ==
  IF extracted
  THEN IF tabSwitched THEN "url_changed" ELSE diff.type
  ELSE IF tabSwitched \/ urlChangedSameTab THEN "different_page_notice"
       ELSE "current_tab"

\* lines 570-650 of one turn, every call succeeding: query the active tab,
\* fetch the page, prune, push, build the section, update the tracking
PageContext(h, extracted) ==
  /\ h \in 1..Len(turns)
  /\ turns[h].pc = "context"
  /\ IF ~turns[h].pageContextEnabled
     THEN /\ extracted
          /\ turns' = [turns EXCEPT ![h].pc = "loop"]
          /\ UNCHANGED <<lastSeenTabId, lastSeenUrl, seen>>
     ELSE LET tab == activeTab
              currentUrl == tabUrl[tab]
              tabSwitched == IsSome(lastSeenTabId) /\ Val(lastSeenTabId) # tab
              urlChangedSameTab ==
                ~tabSwitched /\ IsSome(lastSeenUrl) /\ Val(lastSeenUrl) # currentUrl
              entries == IF extracted THEN PortPruned(seen, now) ELSE seen
              snapshot == Snapshot(PageContent(currentUrl, extracted), now)
              diff == PushDiff(entries[tab], snapshot, now)
          IN /\ seen' = [entries EXCEPT ![tab] = Some(PushEntry(entries[tab], snapshot, now))]
             /\ turns' = [turns EXCEPT ![h] =
                  [@ EXCEPT !.pc = "loop", !.lastTab = lastSeenTabId,
                            !.lastUrl = lastSeenUrl, !.tab = tab, !.url = currentUrl,
                            !.told = Told(tabSwitched, urlChangedSameTab, extracted, diff)]]
             /\ lastSeenTabId' = Some(tab)
             /\ lastSeenUrl' = Some(currentUrl)
  /\ UNCHANGED <<activeTab, tabUrl>>
  /\ UNCHANGED <<storeVars, clientVars, chatVars, splitVars, parseVars, histVars, mutexVars>>

\* the orchestrator loop of a turn ends and done is posted
TurnEnds(h) ==
  /\ h \in 1..Len(turns)
  /\ turns[h].pc = "loop"
  /\ turns' = [turns EXCEPT ![h].pc = "done"]
  /\ UNCHANGED <<lastSeenTabId, lastSeenUrl, activeTab, tabUrl, seen>>
  /\ UNCHANGED <<storeVars, clientVars, chatVars, splitVars, parseVars, histVars, mutexVars>>

PortNext ==
  \/ \E d \in ClockSteps : Tick(d)
  \/ \E t \in PortTabs, u \in PortUrls : Navigate(t, u)
  \/ \E t \in PortTabs : Activate(t)
  \/ \E enabled \in BOOLEAN : ChatMessage(enabled)
  \/ \E h \in 1..MaxTurns, extracted \in BOOLEAN : PageContext(h, extracted)
  \/ \E h \in 1..MaxTurns : TurnEnds(h)

----------------------------------------------------------------------------
(* Specifications *)

InitChat == InitStore /\ IdleClient /\ IdleChat /\ IdleSplit /\ IdleParse /\ IdleAux
SpecChat == InitChat /\ [][ChatNext]_vars

InitClient == InitStore /\ IdleClient /\ IdleChat /\ IdleSplit /\ IdleParse /\ IdleAux
SpecClient == InitClient /\ [][ClientNext]_vars
\* every pending fetch, body read and timer of the client settles
SpecClientFair == SpecClient /\ WF_vars(ClientNext)

InitPush == InitStore /\ IdleClient /\ IdleChat /\ IdleSplit /\ IdleParse /\ IdleAux
SpecPush == InitPush /\ [][PushNext]_vars

InitGet == InitStore /\ IdleClient /\ IdleChat /\ IdleSplit /\ IdleParse /\ IdleAux
SpecGet == InitGet /\ [][GetNext]_vars

\* one call of splitIntoChunks on each text, chunk size and overlap of SplitInputs
InitSplit ==
  /\ InitStore /\ IdleClient /\ IdleChat /\ IdleParse /\ IdleAux
  /\ \E i \in SplitInputs : /\ splitInput = i.text
                            /\ splitSize = i.chunkSize
                            /\ splitOverlap = i.overlap
  /\ splitPc = "call"
  /\ splitStart = 0
  /\ splitChunks = <<>>
  /\ splitWindows = <<>>
SpecSplit == InitSplit /\ [][SplitNext]_vars

\* one call of parseStream on each body, cut into reads in every way
InitParse ==
  /\ InitStore /\ IdleClient /\ IdleChat /\ IdleSplit /\ IdleAux
  /\ streamReads \in StreamReadings
  /\ parsePc = "read"
  /\ readCount = 0
  /\ buffer = <<>>
  /\ yielded = <<>>
SpecParse == InitParse /\ [][ParseNext]_vars

\* one call of messagesToApiHistory on each conversation
InitHist ==
  /\ InitStore /\ IdleClient /\ IdleChat /\ IdleSplit /\ IdleParse /\ IdleMutex /\ IdlePort
  /\ histInput \in ShortHistories \cup LongHistories
  /\ histPc = "call"
  /\ histResult = <<>>
SpecHist == InitHist /\ [][HistNext]_vars

Init == InitStore /\ IdleClient /\ IdleChat /\ IdleSplit /\ IdleParse /\ IdleAux
Next == StoreNext
Spec == Init /\ [][Next]_vars

\* a writer (pushes and clears, one after the other) and a reader of the same tab;
\* every call of the durable store succeeds
RaceNext ==
  \/ Restart
  \/ \E t \in Tabs, c \in PushContents : PushStart(1, t, c)
  \/ \E p \in Procs : LoadGet(p, TRUE)
  \/ \E p \in Procs : LoadResume(p)
  \/ PushDecide(1)
  \/ PushSaved(1, TRUE)
  \/ \E t \in Tabs : ClearStart(1, t)
  \/ ClearRemoved(1, TRUE)
  \/ \E t \in Tabs, source \in {"latest", "previous"} : GetStart(2, t, source, <<0>>)
  \/ GetReturn(2)
SpecRace == Init /\ [][RaceNext]_vars

\* callers of runExclusive on one mutex
SpecMutex == Init /\ [][MutexNext]_vars

\* one chat connection over time
SpecPort == Init /\ [][PortNext]_vars

----------------------------------------------------------------------------
(* Claims on the snapshot store *)

\* C1: after completed pushes the previous slot of the tab entry holds exactly the
\* snapshot that was latest immediately before the current latest, or is null
\* when the latest was installed with no prior entry or past the TTL.
\* Stated at each installation: the entry push installs has, as previous, the
\* latest the cache held at that moment, or null if there was none or it was stale.
C1_PreviousIsPriorLatest ==
  \A p \in Procs :
    ops[p].pc = "save_set" =>
      Val(ops[p].entry).previous =
        IF IsSome(ops[p].prior) /\ ops[p].now0 - Val(ops[p].prior).updatedAt <= TTL_MS
        THEN ops[p].prior ELSE None

\* C2: push is an atomic read-modify-write per tab id: no other push takes effect
\* between one push's read of the existing entry and its installation.
C2_PushIsAtomic == \A p \in Procs : ~ops[p].torn

----------------------------------------------------------------------------
(* Claims on the chat handler *)

\* C3: if the abort signal trips while a round's model stream is being consumed,
\* the turn ends with a done event marked aborted and with no error event, and the
\* side panel appends the stopped-by-user marker to the text streamed so far.
C3_AbortMidStreamEndsAborted ==
  (hpc = "ended" /\ abortedAt = "body") =>
    /\ posted[Len(posted)] = Done(TRUE)
    /\ \A i \in 1..Len(posted) : posted[i].type # "error"
    /\ LET content == SidepanelContent(<<>>, posted)
       IN /\ content # <<>>
          /\ content[Len(content)] = STOPPED_MARKER
          /\ \A i \in 1..(Len(content) - 1) : content[i] = "text"

\* C4: in a turn whose agent mode is not edit, the handler never invokes the
\* page-write channel, whatever function calls the model emits.
C4_AskModeNeverWrites == agentMode # "edit" => pageWrites = <<>>

\* C5: after a completed round with tool calls the conversation is extended by
\* exactly one model turn whose parts are the provider parts emitted in the round,
\* each once and in emission order, then by exactly one tool-response turn with
\* one function response per emitted function call, in order and with the same
\* name; each emitted tool call is executed exactly once.
C5_RoundExtendsConversation ==
  (hpc = "loop_top" /\ round > 0) =>
    LET emittedCalls == FunctionCallsOf(emitted)
    IN /\ Len(convNew) = 2
       /\ convNew[1] = Turn("model", emitted)
       /\ convNew[2].role = "user"
       /\ Len(convNew[2].parts) = Len(emittedCalls)
       /\ \A i \in 1..Len(emittedCalls) :
            convNew[2].parts[i].name = emittedCalls[i].name
       /\ Len(raised) = Len(emittedCalls)

\* C6: within a round, finish-reason and usage events are never forwarded while
\* the stream is consumed; each is forwarded at most once, after every text and
\* thinking event of the round, if and only if the round ended with no tool
\* call, and then no further round starts.
C6_HeldMetricsForwardedAtEnd ==
  LET metric(i) == posted[i].type = "chunk" /\ posted[i].what \in {"finishReason", "usage"}
      streamed(i) == posted[i].type = "chunk" /\ posted[i].what \in {"text", "thinking"}
      sent(what) == {i \in 1..Len(posted) : posted[i].type = "chunk" /\ posted[i].what = what}
  IN /\ hpc # "ended" => \A i \in 1..Len(posted) : ~metric(i)
     /\ Cardinality(sent("finishReason")) <= 1
     /\ Cardinality(sent("usage")) <= 1
     /\ \A i, j \in 1..Len(posted) : metric(i) /\ streamed(j) => j < i
     /\ (\E i \in 1..Len(posted) : metric(i)) =>
          hpc = "ended" /\ ending = "completed" /\ FunctionCallsOf(modelParts) = <<>>
     /\ (hpc = "ended" /\ ending = "completed") =>
          /\ IsSome(heldFinishReason) <=> sent("finishReason") # {}
          /\ IsSome(heldUsage) <=> sent("usage") # {}

\* a round streams text, then the finish reason and the usage, and ends the turn
C6_Witness ==
  /\ hpc = "ended"
  /\ posted = <<Event("chunk", "text", FALSE), Event("chunk", "finishReason", FALSE),
                Event("chunk", "usage", FALSE), Done(FALSE)>>

\* C7: a chat turn invokes the inference client at most MAX_TOOL_ROUNDS times; if
\* every round up to that limit contains a tool call, the turn ends with a done
\* event that is not marked aborted and with no error event.
C7_RoundsBounded ==
  /\ clientCalls <= MAX_TOOL_ROUNDS
  /\ round <= MAX_TOOL_ROUNDS
  /\ round = MAX_TOOL_ROUNDS =>
       /\ hpc = "ended"
       /\ posted # <<>>
       /\ posted[Len(posted)] = Done(FALSE)
       /\ \A i \in 1..Len(posted) : posted[i].type # "error"
       /\ \A i \in 1..(Len(posted) - 1) : posted[i].type # "done"

\* every one of the MAX_TOOL_ROUNDS rounds ran tool calls
C7_Witness ==
  /\ round = MAX_TOOL_ROUNDS
  /\ clientCalls = MAX_TOOL_ROUNDS
  /\ hpc = "ended"

\* C8: when executing a tool call raises, the error is caught for that call only:
\* a function response with an error object of status failed is appended for it,
\* the remaining tool calls of the round are still executed, the loop goes on to
\* the next round, and neither an error event nor an early end of the turn results.
C8_ToolErrorsAreCaught ==
  /\ Len(raised) = Len(functionResponses)
  /\ \A i \in 1..Len(raised) :
       raised[i] <=> (functionResponses[i].content.kind = "error"
                      /\ functionResponses[i].content.status = "failed"
                      /\ functionResponses[i].content.error # "")
  /\ (\E i \in 1..Len(raised) : raised[i]) =>
       /\ hpc \in {"tools", "tool_wait", "loop_top", "ended"}
       /\ hpc = "loop_top" =>
            /\ Len(functionResponses) = Len(calls)
            /\ convNew[2] = Turn("user", functionResponses)
       /\ hpc = "ended" =>
            /\ \A i \in 1..Len(posted) : posted[i].type # "error"
            /\ \/ ending = "max_rounds"
               \/ ending = "aborted" /\ abortedAt = "tool_wait"

\* the first of two tool calls of a round raised, the second ran, the loop goes on
C8_Witness ==
  /\ hpc = "loop_top"
  /\ raised = <<TRUE, FALSE>>
  /\ Len(convNew) = 2
  /\ convNew[2].parts[1].content.status = "failed"
  /\ convNew[2].parts[2].content.kind = "chunks"

----------------------------------------------------------------------------
(* Claims on the inference client *)

\* C9: endpoints are tried in the provider's configured order, and as soon as a
\* request attempt returns 2xx no further request is issued to any endpoint; the
\* call returns that response (the one the event stream is decoded from).
C9_FirstSuccessWins ==
  /\ requests # <<>> => requests[1].endpoint = 1
  /\ \A i \in 1..(Len(requests) - 1) :
       requests[i + 1].endpoint \in {requests[i].endpoint, requests[i].endpoint + 1}
  /\ \A i \in 1..Len(requests) :
       requests[i].outcome = "200" =>
         /\ i = Len(requests)
         /\ cpc = "done"
         /\ result = Some([response |-> i, error |-> None])

\* a retried request succeeds on the first of two endpoints
C9_Witness ==
  /\ cpc = "done"
  /\ endpoints = 2
  /\ Len(requests) = 2
  /\ requests[2] = [endpoint |-> 1, attempt |-> 2, outcome |-> "200", hint |-> None]

\* C10: when a request attempt fails because the call was cancelled through the
\* abort signal, the client issues no further request attempt, neither on that
\* endpoint nor on any later endpoint.
C10_AbortStopsClient ==
  \A i \in 1..Len(requests) : requests[i].outcome = "AbortError" => i = Len(requests)

C12_LongWaitFailsOver ==
  \A i \in 1..Len(requests) :
    LET r == requests[i]
        wait == IF Val(r.hint) > 0 THEN Val(r.hint) + 1 ELSE 2
    IN (r.outcome = "429" /\ IsSome(r.hint) /\ wait > 20) =>
         /\ \A k \in 1..Len(slept) : slept[k].request # i
         /\ \A j \in (i + 1)..Len(requests) : requests[j].endpoint # r.endpoint
         /\ IF r.endpoint < endpoints
            THEN /\ i < Len(requests)
                 /\ requests[i + 1].endpoint = r.endpoint + 1
                 /\ requests[i + 1].attempt = 1
            ELSE /\ i = Len(requests)
                 /\ cpc = "done"
                 /\ result = Some([response |-> 0,
                                   error |-> Some(Error("rate_limit", Val(r.hint)))])

\* the first endpoint answered 429 with "after 20s": no sleep, the second is tried
C12_Witness ==
  /\ endpoints = 2
  /\ Len(requests) = 2
  /\ requests[1].outcome = "429"
  /\ requests[1].hint = Some(20)
  /\ requests[2].endpoint = 2
  /\ slept = <<>>

C14_BoundedAttempts ==
  /\ [](/\ \A e \in ProviderEndpoints :
            Cardinality({i \in 1..Len(requests) : requests[i].endpoint = e}) <= 3
        /\ \A i \in 1..Len(requests) : requests[i].attempt <= 3
        /\ (cpc = "done" /\ \A i \in 1..Len(requests) : requests[i].outcome # "200") =>
             /\ IsSome(result)
             /\ IsSome(Val(result).error)
             /\ RequestEvents(Val(result)) = <<Chunk("error", None, None)>>)
  /\ (cpc # "idle") ~> (cpc = "done")

\* three failed attempts on each of two endpoints, then the error
C14_Witness ==
  /\ cpc = "done"
  /\ endpoints = 2
  /\ Len(requests) = 6
  /\ \A i \in 1..6 : requests[i].outcome = "503"
  /\ IsSome(Val(result).error)

\* C15: backoff sleeps in the client are interruptible: if the abort signal trips
\* during such a sleep, the sleep ends at once instead of running to its end.
C15_SleepsInterruptible ==
  [][(cpc = "sleep" /\ ~signal /\ signal') => cpc' # "sleep"]_vars

----------------------------------------------------------------------------
(* Claims on the results of push and getChunks *)

\* C16: a push for a tab that has no entry (neither in the cache nor in the
\* durable store), or whose existing latest is older than the TTL, returns diff
\* no_previous and leaves the entry as latest = the new snapshot and previous =
\* null, exactly as a first-ever push would.
C16_FirstOrStalePush ==
  [][\A p \in Procs :
       LET o == ops[p]
           t == o.tab
           first == TabEntry(Val(o.snap), None)
       IN /\ (/\ o.pc = "push_loaded" /\ ops'[p].pc = "save_set"
              /\ \/ ~IsSome(o.existing)
                 \/ now - Val(o.existing).latest.updatedAt > 30 * 60 * 1000)
             => tabs'[t] = Some(first)
          /\ (/\ o.pc = "save_set" /\ ops'[p].pc = "idle"
              /\ \/ ~IsSome(o.existing)
                 \/ o.now0 - Val(o.existing).latest.updatedAt > 30 * 60 * 1000)
             => /\ ret'.kind = "push"
                /\ ret'.diff = DiffOf("no_previous")
                /\ o.entry = Some(first)
                /\ storage'[t] \in {storage[t], Some(first)}]_vars

\* a push found a latest older than the TTL and installed its snapshot alone
C16_Witness ==
  /\ ops[1].pc = "save_set"
  /\ IsSome(ops[1].existing)
  /\ ops[1].now0 - Val(ops[1].existing).latest.updatedAt > 30 * 60 * 1000
  /\ tabs[1] = Some(TabEntry(Val(ops[1].snap), None))

\* C17: a push within the TTL whose url differs from the existing latest's url
\* returns url_changed (carrying the old and the new url) regardless of the text,
\* including when the text and its hash are identical to the old ones.
C17_UrlChanged ==
  [][\A p \in Procs :
       LET o == ops[p]
       IN (/\ o.pc = "save_set" /\ ops'[p].pc = "idle"
           /\ IsSome(o.existing)
           /\ o.now0 - Val(o.existing).latest.updatedAt <= 30 * 60 * 1000
           /\ Val(o.existing).latest.url # Val(o.snap).url)
          => /\ ret'.diff.type = "url_changed"
             /\ ret'.diff.oldUrl = Val(o.existing).latest.url
             /\ ret'.diff.newUrl = Val(o.snap).url]_vars

\* the same text was pushed under another url and the push returned url_changed
C17_Witness ==
  /\ AllIdle
  /\ ret.kind = "push"
  /\ ret.diff.type = "url_changed"
  /\ ret.diff.oldUrl = "u1"
  /\ ret.diff.newUrl = "u2"
  /\ IsSome(tabs[1])
  /\ IsSome(Val(tabs[1]).previous)
  /\ Val(tabs[1]).latest.markdown = Val(Val(tabs[1]).previous).markdown
  /\ Val(tabs[1]).latest.hash = Val(Val(tabs[1]).previous).hash
  /\ Val(tabs[1]).latest.url = "u2"

\* C18: a push within the TTL that has the same url as the existing latest and
\* identical text returns unchanged.
C18_Unchanged ==
  [][\A p \in Procs :
       LET o == ops[p]
       IN (/\ o.pc = "save_set" /\ ops'[p].pc = "idle"
           /\ IsSome(o.existing)
           /\ o.now0 - Val(o.existing).latest.updatedAt <= 30 * 60 * 1000
           /\ Val(o.existing).latest.url = Val(o.snap).url
           /\ Val(o.existing).latest.markdown = Val(o.snap).markdown)
          => ret'.diff = DiffOf("unchanged")]_vars

\* the same page was pushed twice and the second push returned unchanged
C18_Witness ==
  /\ AllIdle
  /\ ret.kind = "push"
  /\ ret.diff.type = "unchanged"
  /\ IsSome(tabs[1])
  /\ IsSome(Val(tabs[1]).previous)
  /\ Val(tabs[1]).latest.markdown = Val(Val(tabs[1]).previous).markdown
  /\ Val(tabs[1]).latest.markdown # <<>>
  /\ Val(tabs[1]).latest.url = Val(Val(tabs[1]).previous).url

\* C19: for a same-url push within the TTL whose hash differs, the result is
\* small_diff when changed lines divided by total lines is at most 0.3 (a ratio
\* exactly at the threshold is small_diff) and large_diff otherwise; every
\* small_diff carries a non-empty patch and no large_diff carries a patch.
C19_SmallOrLargeDiff ==
  [][\A p \in Procs :
       LET o == ops[p]
           d == ret'.diff
       IN (/\ o.pc = "save_set" /\ ops'[p].pc = "idle"
           /\ IsSome(o.existing)
           /\ o.now0 - Val(o.existing).latest.updatedAt <= 30 * 60 * 1000
           /\ Val(o.existing).latest.url = Val(o.snap).url
           /\ Val(o.existing).latest.hash # Val(o.snap).hash)
          => /\ d.type \in {"small_diff", "large_diff"}
             /\ d.totalLines > 0
             /\ d.changedLines > 0
             /\ d.changedLines <= d.totalLines
             /\ d.type = "small_diff" <=> 10 * d.changedLines <= 3 * d.totalLines
             /\ d.type = "small_diff" => d.patch # <<>>
             /\ d.type = "large_diff" => d.patch = <<>>]_vars

\* three of ten lines were removed: the ratio is exactly 0.3 and the diff is small
C19_Witness ==
  /\ AllIdle
  /\ ret.kind = "push"
  /\ ret.diff.type = "small_diff"
  /\ ret.diff.changedLines = 3
  /\ ret.diff.totalLines = 10
  /\ Len(ret.diff.patch) = 5

\* C20: getChunks(tabId, source, indices) returns, in request order, exactly one
\* item for each requested index i with 0 <= i < the number of chunks of the
\* selected snapshot, whose content is that snapshot's chunk i; out-of-range
\* indices, a missing tab and a missing previous snapshot yield no items and
\* never an error.
C20_GetChunksInRange ==
  [][\A p \in Procs :
       LET o == ops[p]
           chunks == IF ~IsSome(o.existing) THEN <<>>
                     ELSE IF o.source = "latest" THEN Val(o.existing).latest.chunks
                     ELSE IF IsSome(Val(o.existing).previous)
                       THEN Val(Val(o.existing).previous).chunks
                     ELSE <<>>
           asked == {k \in 1..Len(o.indices) :
                       o.indices[k] >= 0 /\ o.indices[k] < Len(chunks)}
           items == ret'.items
       IN (o.pc = "get_loaded" /\ ops'[p].pc = "idle") =>
            /\ ret'.kind = "getChunks"
            /\ ~ret'.threw
            /\ Len(items) = Cardinality(asked)
            /\ \A n \in 1..Len(items) :
                 \E k \in asked :
                   /\ Cardinality({j \in asked : j < k}) = n - 1
                   /\ items[n].index = o.indices[k]
                   /\ items[n].content = chunks[o.indices[k] + 1]]_vars

\* chunks 1, 0 and 1 of the previous snapshot were returned in that order; the
\* indices -1 and 100 were dropped
C20_Witness ==
  /\ ret.kind = "getChunks"
  /\ Len(ret.items) = 3
  /\ ret.items[1].index = 1
  /\ ret.items[2].index = 0
  /\ ret.items[3].index = 1
  /\ Len(ret.items[2].content) = 2000
  /\ Len(ret.items[1].content) = 201
  /\ IsSome(tabs[1])
  /\ Val(tabs[1]).latest.url = "u1"

----------------------------------------------------------------------------
(* Claims on persistence failures, pruning and races of the store *)

\* C21: no operation of the store raises to its caller when a get, set or remove
\* of the durable store fails: the failure is absorbed.
\* Stated on what the most recently completed operation returned.
C21_NoOperationRaises == ~ret.threw

\* C22: after pruneStale completes, no tab entry whose latest.updatedAt is older
\* than the TTL remains, neither in the cache nor in the durable store.
\* Stated for a pruneStale whose own get and remove succeeded and that completes
\* with no other operation in flight; the age is taken at the clock value
\* pruneStale read.
C22_PruneRemovesStale ==
  [][\A p \in Procs :
       LET o == ops[p]
           stale(e) == IsSome(e) /\ o.now0 - Val(e).latest.updatedAt > TTL_MS
       IN (/\ o.kind = "pruneStale"
           /\ o.pc \in {"prune_got", "prune_remove"}
           /\ \A q \in Procs : ops'[q].pc = "idle"
           /\ o.pc = "prune_remove" => \A t \in o.keys : storage'[t] = None)
          => \A t \in Tabs : ~stale(tabs'[t]) /\ ~stale(storage'[t])]_vars

\* C23: when operations on the same tab race (a push or a clear with a read that
\* populates the cache), then once all of them have completed, with no call of
\* the durable store failing, the cache and the durable store hold the same entry.
\* Stated on what the cache holds: a cache emptied by a restart holds no entry.
C23_CacheMatchesStorage ==
  AllIdle => \A t \in Tabs : IsSome(tabs[t]) => tabs[t] = storage[t]

----------------------------------------------------------------------------
(* Claims on splitIntoChunks *)

\* C24: for every text, every chunkSize >= 1 and every overlap >= 0, an overlap of
\* chunkSize or more included, splitIntoChunks terminates: every iteration moves
\* start forward by at least one character and never past the end of the text,
\* and the result never holds more chunks than the cap.
C24_SplitTerminates ==
  [][(splitPc = "loop" /\ splitChunks' # splitChunks) =>
       /\ splitStart' >= splitStart + 1
       /\ splitStart' <= Len(SplitText)
       /\ Len(splitChunks') = Len(splitChunks) + 1
       /\ Len(splitChunks') <= MAX_CHUNKS]_vars

\* a call with an overlap of chunkSize or more returned after several iterations
C24_Witness ==
  /\ splitPc = "done"
  /\ splitSize >= 1
  /\ splitOverlap >= splitSize
  /\ Len(splitChunks) >= 3
  /\ splitStart = Len(SplitText)

\* C25: for every non-empty text the returned chunks jointly cover the whole
\* text: every character that is not whitespace lies in at least one chunk
\* (chunk k is a stretch of its window that holds the character).
C25_ChunksCoverText ==
  splitPc = "done" =>
    \A i \in 1..Len(SplitText) :
      ~IsSpace(SplitText[i]) =>
        \E k \in 1..Len(splitWindows) :
          \E a \in (splitWindows[k][1] + 1)..i, b \in i..splitWindows[k][2] :
            splitChunks[k] = SubSeq(SplitText, a, b)

\* C25 as the code keeps it: the chunks cover the text up to the end of the last
\* window, and the whole text whenever fewer chunks than the cap were returned.
C25_ChunksCoverUpToCap ==
  splitPc = "done" =>
    LET covered(i) ==
          \E k \in 1..Len(splitWindows) :
            \E a \in (splitWindows[k][1] + 1)..i, b \in i..splitWindows[k][2] :
              splitChunks[k] = SubSeq(SplitText, a, b)
        reached == IF splitWindows = <<>> THEN 0
                   ELSE splitWindows[Len(splitWindows)][2]
    IN /\ \A i \in 1..reached : ~IsSpace(SplitText[i]) => covered(i)
       /\ Len(splitChunks) < MAX_CHUNKS => reached = Len(SplitText)
       /\ Len(splitChunks) <= MAX_CHUNKS

\* a text split into several chunks below the cap, one of which was trimmed
C25_Witness ==
  /\ splitPc = "done"
  /\ Len(splitChunks) >= 2
  /\ Len(splitChunks) < MAX_CHUNKS
  /\ \E k \in 1..Len(splitWindows) :
       /\ splitChunks[k] # Slice(SplitText, splitWindows[k][1], splitWindows[k][2])
       /\ splitChunks[k] # <<>>

\* C26: for a window that does not reach the end of the text, the chunk ends right
\* after the last double line break of the window if that lies past 50% of
\* chunkSize; otherwise right after the last single line break if that lies past
\* 50% of chunkSize; otherwise at the window's edge. A qualifying paragraph
\* boundary is chosen even when a later single line break exists.
C26_SplitPoint ==
  \A k \in 1..Len(splitWindows) :
    LET start == splitWindows[k][1]
        end == splitWindows[k][2]
        paragraphs == { i \in 0..(splitSize - 2) :
                          SplitText[start + i + 1] = NL /\ SplitText[start + i + 2] = NL }
        newlines == { i \in 0..(splitSize - 1) : SplitText[start + i + 1] = NL }
        past(S) == { i \in S : 2 * i > splitSize }
        last(S) == CHOOSE i \in S : \A j \in S : j <= i
    IN start + splitSize < Len(SplitText) =>
         end = IF paragraphs # {} /\ 2 * last(paragraphs) > splitSize
               THEN start + last(paragraphs) + 2
               ELSE IF newlines # {} /\ 2 * last(newlines) > splitSize
               THEN start + last(newlines) + 1
               ELSE start + splitSize

\* a window cut after a paragraph boundary although a single line break follows it
C26_Witness ==
  /\ splitPc = "done"
  /\ \E k \in 1..Len(splitWindows) :
       LET start == splitWindows[k][1]
           end == splitWindows[k][2]
       IN /\ start + splitSize < Len(SplitText)
          /\ 2 * (end - start - 2) > splitSize
          /\ SplitText[end - 1] = NL /\ SplitText[end] = NL
          /\ \E j \in (end + 2)..(start + splitSize) :
               SplitText[j] = NL /\ SplitText[j - 1] # NL

\* C27: the next window starts at start + max(end - start - overlap, 1); splitting
\* goes on until start reaches the length of the text or the cap is hit, so chunks
\* that are suffixes of the last window are emitted: '1234567890' with chunkSize 6
\* and overlap 2 gives '123456', '567890', '90', '0'.
C27_NextWindow ==
  LET n == Len(splitWindows)
      next(k) == LET d == splitWindows[k][2] - splitWindows[k][1] - splitOverlap
                 IN splitWindows[k][1] + (IF d > 1 THEN d ELSE 1)
  IN (splitPc \in {"loop", "done"} /\ Len(SplitText) > splitSize) =>
       /\ \A k \in 1..(n - 1) : splitWindows[k + 1][1] = next(k)
       /\ n > 0 => splitStart = next(n)
       /\ splitPc = "done" => (splitStart >= Len(SplitText) \/ n = MAX_CHUNKS)
       /\ (/\ splitPc = "done"
           /\ SplitText = <<"1", "2", "3", "4", "5", "6", "7", "8", "9", "0">>
           /\ splitSize = 6 /\ splitOverlap = 2)
          => splitChunks = << <<"1", "2", "3", "4", "5", "6">>,
                              <<"5", "6", "7", "8", "9", "0">>,
                              <<"9", "0">>, <<"0">> >>

\* the call of the example returned its four chunks
C27_Witness ==
  /\ splitPc = "done"
  /\ SplitText = <<"1", "2", "3", "4", "5", "6", "7", "8", "9", "0">>
  /\ splitSize = 6 /\ splitOverlap = 2
  /\ Len(splitChunks) = 4
  /\ splitWindows = << <<0, 6>>, <<4, 10>>, <<8, 10>>, <<9, 10>> >>

\* C28: the chunk cap is 30: a text of 100 characters with chunkSize 1 and
\* overlap 0 yields exactly 30 chunks.
C28_CapIsThirty ==
  splitPc = "done" =>
    /\ Len(splitChunks) <= 30
    /\ (Len(SplitText) = 100 /\ splitSize = 1 /\ splitOverlap = 0)
         => Len(splitChunks) = 30

\* C29: splitIntoChunks returns the empty sequence for an empty, null or undefined
\* input, and for a non-empty input shorter than chunkSize exactly one chunk equal
\* to the input, not trimmed.
C29_EmptyAndShort ==
  splitPc = "done" =>
    /\ (~IsSome(splitInput) \/ splitInput = Some(<<>>)) => splitChunks = <<>>
    /\ (IsSome(splitInput) /\ Len(SplitText) > 0 /\ Len(SplitText) < splitSize)
         => (Len(splitChunks) = 1 /\ splitChunks[1] = Val(splitInput))

\* a short text with blanks around it was returned as its one chunk
C29_Witness ==
  /\ splitPc = "done"
  /\ IsSome(splitInput)
  /\ Len(SplitText) > 0 /\ Len(SplitText) < splitSize
  /\ IsSpace(SplitText[1])
  /\ splitChunks = <<SplitText>>

----------------------------------------------------------------------------
(* Claims on the stream decoder *)

----------------------------------------------------------------------------
(* Claims on the end of a chat turn and on cancellation *)

\* C31: the finish reason and the usage held for a turn's final round are never
\* silently dropped: when the turn has ended, each of them was forwarded to the
\* caller before the done event, or the turn ended with an error event or with a
\* done event marked aborted; also when the turn ends at the maximum of rounds.
C31_HeldMetricsNeverDropped ==
  hpc = "ended" =>
    LET forwarded(what) == \E i \in 1..(Len(posted) - 1) :
                             posted[i].type = "chunk" /\ posted[i].what = what
        superseded == \/ \E i \in 1..Len(posted) : posted[i].type = "error"
                      \/ posted[Len(posted)] = Done(TRUE)
    IN /\ IsSome(heldFinishReason) => (forwarded("finishReason") \/ superseded)
       /\ IsSome(heldUsage) => (forwarded("usage") \/ superseded)

C36_NothingStartsAfterAbort ==
  [][aborted =>
       /\ Len(pageWrites') <= Len(pageWrites)
       /\ clientCalls' = clientCalls
       /\ hpc = "tools" => (hpc' # "tool_wait" /\ Len(raised') = Len(raised))]_vars

----------------------------------------------------------------------------
(* Claims on pruning and on the chunk indices of a diff *)

\* C38: pruneStale never removes a tab entry whose current latest snapshot is
\* within the TTL: the scan leaves such a cache entry in place and the removal
\* leaves such a durable entry in place, also when a push runs during pruneStale
\* and when the durable copy is older than the cached one.
C38_PruneKeepsFresh ==
  [][\A p \in Procs : \A t \in Tabs :
       LET fresh(e) == IsSome(e) /\ now - Val(e).latest.updatedAt <= TTL_MS
       IN /\ (ops[p].pc = "prune_got" /\ ops'[p].pc # "prune_got" /\ fresh(tabs[t]))
               => tabs'[t] = tabs[t]
          /\ (ops[p].pc = "prune_remove" /\ ops'[p].pc = "idle" /\ fresh(storage[t]))
               => storage'[t] = storage[t]]_vars

\* C39: every index in changedChunks of a small_diff or large_diff that push
\* returns is a chunk index of the snapshot installed as the new latest.
C39_ChangedChunksValid ==
  [][\A p \in Procs :
       (ops[p].pc = "save_set" /\ ops'[p].pc = "idle"
        /\ ret'.diff.type \in {"small_diff", "large_diff"})
       => \A k \in 1..Len(ret'.diff.changedChunks) :
            /\ ret'.diff.changedChunks[k] >= 0
            /\ ret'.diff.changedChunks[k] < Len(Val(ops[p].snap).chunks)]_vars

----------------------------------------------------------------------------
(* Claim on the error executeRequest returns *)

\* C40: when no endpoint succeeds, the error returned describes the last failure
\* on the last endpoint tried: a rate-limit error after a 429 answer, an API error
\* with the status after another failed answer, the exception after a fetch that
\* threw; it is never the generic connection failure when an answer was received.
C40_ErrorDescribesLastFailure ==
  (cpc = "done" /\ IsSome(result) /\ IsSome(Val(result).error)) =>
    LET last == requests[Len(requests)]
        err == Val(Val(result).error)
        answered == \E i \in 1..Len(requests) :
                      requests[i].outcome \in {"429", "503", "404", "500"}
    IN /\ last.outcome = "429" => err.kind = "rate_limit"
       /\ last.outcome \in {"503", "404", "500"} =>
            (err.kind \in {"api", "claude_not_found"} /\ err.detail = status)
       /\ last.outcome = "neterr" => err.kind = "network"
       /\ last.outcome = "AbortError" => err.kind = "AbortError"
       /\ answered => err.kind # "connect"

----------------------------------------------------------------------------
(* Claims on the chat connection, the history window and the mutex *)

\* C32: on one connection, when the active tab or its url at the start of a turn
\* differs from the tab id or url remembered from the turn before, the
\* page-context section of the turn tells the model that it is looking at a
\* different page, whatever diff the snapshot store returned.
C32_DifferentPageTold ==
  \A h \in 1..Len(turns) :
    LET t == turns[h]
        differs == \/ IsSome(t.lastTab) /\ Val(t.lastTab) # t.tab
                   \/ IsSome(t.lastUrl) /\ Val(t.lastUrl) # t.url
    IN (t.pc # "context" /\ t.pageContextEnabled /\ differs)
         => t.told \in {"url_changed", "different_page_notice"}

\* C34: at most one orchestrator loop is active on a chat connection at a time.
C34_OneLoopPerConnection ==
  Cardinality({ h \in 1..Len(turns) : turns[h].pc = "loop" }) <= 1

\* C35: messagesToApiHistory returns, in their order, the last
\* MAX_HISTORY_MESSAGES of the messages with non-empty content (the empty ones
\* are removed before the window is applied), each as role user or model
\* (assistant becomes model) with a single text part.
C35_LastNonEmptyMessages ==
  histPc = "done" =>
    LET nonEmpty == { i \in 1..Len(histInput) : histInput[i].content # <<>> }
        kept == { i \in nonEmpty :
                    Cardinality({ j \in nonEmpty : j > i }) < MAX_HISTORY_MESSAGES }
    IN /\ Len(histResult) = Cardinality(kept)
       /\ \A i \in kept :
            LET r == histResult[Cardinality({ j \in kept : j <= i })]
            IN /\ r.role = (IF histInput[i].role = "assistant" THEN "model" ELSE "user")
               /\ r.parts = <<[text |-> histInput[i].content]>>

\* a conversation with empty messages and more than MAX_HISTORY_MESSAGES
\* non-empty ones was converted
C35_Witness ==
  /\ histPc = "done"
  /\ Len(histResult) = MAX_HISTORY_MESSAGES
  /\ \E i \in 1..Len(histInput) : histInput[i].content = <<>>
  /\ Cardinality({ i \in 1..Len(histInput) : histInput[i].content # <<>> })
       > MAX_HISTORY_MESSAGES
  /\ \E i \in 1..Len(histResult) : histResult[i].role = "model"

\* C37: runExclusive gives mutual exclusion: a second callback does not start
\* until the first has settled.
C37_MutualExclusion ==
  Cardinality({ c \in Callers : mpc[c] = "in_callback" }) <= 1


============================================================================
